---- MODULE Spec2Model ----
(***************************************************************************)
(* Model of the poly-ui front end: the auth session (AuthContext.tsx and   *)
(* lib/auth), the login page, and the data-fetch hooks.                    *)
(*                                                                         *)
(* One action is one turn of the browser's event loop: a user gesture, a  *)
(* timer tick, or the arrival of a response together with the whole chain *)
(* of promise continuations it unblocks up to the next network request.   *)
(* A React state update is taken together with the re-render and the      *)
(* effects it triggers.                                                    *)
(***************************************************************************)
EXTENDS Integers, Sequences, FiniteSets, TLC

\* ---------------------------------------------------------------- bounds
MaxTok == 2        \* token pairs the server issues in one run (incl. the stored one)
MaxBg == 1         \* background refresh requests in flight at once
MaxFetches == 3    \* list requests started in one run
MaxPage == 2       \* pages of whale plays
MaxCreates == 1    \* create-journal requests in flight at once
MaxPositions == 2  \* whale positions in one response
MaxGroups == 3     \* grouped whale bets in one response
MaxItems == 3      \* elements of a list that is sorted
MaxTotalPages == 8 \* total_pages of a whale plays response

\* ------------------------------------------------------------- constants
NULL == "null"               \* user === null
USER == "user"               \* a User object returned by GET /api/auth/me
NoToken == 0                 \* localStorage.getItem(...) === null

VARIABLES
  accessToken,     \* localStorage[ACCESS_TOKEN_KEY]   (0 = absent)
  refreshToken,    \* localStorage[REFRESH_TOKEN_KEY]  (0 = absent)
  nextTok,         \* last token pair issued by the backend
  user,            \* AuthProvider state: user
  isLoading,       \* AuthProvider state: isLoading
  mounted,         \* the AuthProvider is mounted
  timers,          \* number of scheduled refresh intervals
  initPc,          \* position of fetchUser (mount effect)
  initStat,        \* bookkeeping of the fetchUser run
  loginPc,         \* position of login(credentials)
  loginStat,       \* bookkeeping of the last login call / handleSubmit
  isSubmitting,    \* LoginPage state: isSubmitting
  logoutPc,        \* position of logout()
  logoutStat,      \* outcome of the last logout call
  ruPc,            \* position of refreshUser()
  bgFresh,         \* background refreshes in flight, no login completed since
  bgStale,         \* background refreshes in flight, a login completed since
  bgLast,          \* outcome of the background refresh that ended last
  lastReq,         \* the request issued last
  sigFilter,       \* SignalsPage: sportFilter and dateFilter read from the URL
  wpFilter,        \* WhalePlaysPage state: sportFilter, betTypeFilter, statusFilter, page
  qCache,          \* query cache: set of [key, data], one entry per key
  qInflight,       \* fetches in flight: set of [key, req], one per key
  fetches,         \* list requests started so far
  qLast,           \* the response that arrived last
  route,           \* the page shown: signals, whaleBets (query-string version
                   \* of WhalePlaysPage) or whalePlays (paginated version)
  searchParams,    \* the query string of the location: key -> value or absent
  lastSet,         \* per key, the value updateParam was last called with
  pendingInput,    \* WhalePlaysPage state: minVolumeInput, minWhalesInput
  wpState,         \* paginated WhalePlaysPage state: filters, applied values, page
  fOp,             \* the gesture handled last on a page
  jOpen,           \* SignalDetailSheet prop: open
  journalMode,     \* SignalDetailSheet state: journalMode
  journalEntry,    \* SignalDetailSheet state: journalEntry
  journalNotes,    \* SignalDetailSheet state: journalNotes (the notes buffer)
  journalError,    \* SignalDetailSheet state: journalError
  notesExpanded,   \* SignalDetailSheet state: notesExpanded
  existingJournal, \* data of the ['journal', id] query
  checkInflight,   \* the fetch of the ['journal', id] query in flight: "none", or
                   \* what started it ("open", "invalidate")
  createCur,       \* createJournalMutation: notes of the observed pending call
  createOld,       \* createJournalMutation: notes of superseded pending calls
  updInflight,     \* updateNotesMutation: notes of the pending call
  refInflight,     \* refreshMutation: a call is pending
  srvEntry,        \* the backend's journal entry for the signal
  jLast,           \* the journal step taken last
  sheetSignal,     \* SignalDetailSheet prop: signal (pick side, stored consensus)
  whalePositions,  \* positions of the ['whale-positions', id] query data
  shownConsensus,  \* the consensus the sheet renders: <<percent>>, <<>> if none
  shownGroups,     \* the whale position groups the sheet renders, in order
  clipboard,       \* the consensus line of the copied text, <<>> before a copy
  derived          \* the derived view value computed last: [fn, its inputs, out]

authVars == <<accessToken, refreshToken, nextTok, user, isLoading, mounted,
              timers, initPc, initStat, loginPc, loginStat, isSubmitting,
              logoutPc, logoutStat, ruPc, bgFresh, bgStale, bgLast, lastReq>>

queryVars == <<sigFilter, wpFilter, qCache, qInflight, fetches, qLast>>

filterVars == <<route, searchParams, lastSet, pendingInput, wpState, fOp>>

journalVars == <<jOpen, journalMode, journalEntry, journalNotes, journalError,
                 notesExpanded, existingJournal, checkInflight, createCur,
                 createOld, updInflight, refInflight, srvEntry, jLast>>

consensusVars == <<sheetSignal, whalePositions, shownConsensus, shownGroups, clipboard>>

vars == <<authVars, queryVars, filterVars, journalVars, consensusVars, derived>>

\* ------------------------------------------------------- lib/auth helpers

\* isLoggedIn(): !!getAccessToken()
isLoggedIn == accessToken # NoToken

\* a failed fetch: an HTTP error (AuthError with a status) or a network/parse
\* failure (any other exception)
NetworkError == [auth |-> FALSE, status |-> 0, message |-> "Failed to fetch"]

\* new AuthError(error.detail || `API error: ${response.status}`, response.status)
AuthError(s, d) ==
  [auth |-> TRUE, status |-> s,
   message |-> IF d # "" THEN d
               ELSE CASE s = 401 -> "API error: 401"
                      [] s = 423 -> "API error: 423"
                      [] OTHER   -> "API error: 500"]

\* the failures a request can end with: the backend answers 401, 423 or 500,
\* with or without a 'detail' field in the body, or the fetch itself fails
FetchErrors ==
  {AuthError(s, d) : s \in {401, 423, 500}, d \in {"", "server text"}} \cup {NetworkError}

\* error instanceof AuthError && error.status === 401
Is401(e) == e.auth /\ e.status = 401

\* headers sent by authFetch: Authorization only if a token is stored now
AuthFetchRequest(ep) ==
  [via |-> "authFetch", bearer |-> accessToken, stored |-> accessToken]

\* headers sent by fetchApi: Content-Type and X-API-Key only
FetchApiRequest(ep) ==
  [via |-> "fetchApi", bearer |-> NoToken, stored |-> accessToken]

\* same as AuthFetchRequest but evaluated after setTokens(t) in the same turn
AuthFetchRequestWith(ep, t) ==
  [via |-> "authFetch", bearer |-> t, stored |-> t]

\* ------------------------------------------------- AuthProvider helpers

\* number of intervals without the effect's cleanup (candidate fault)
TimersAfterSetUser_NoCleanup(old, new, t) ==
  IF old = NULL /\ new = NULL THEN t
  ELSE t + (IF new # NULL THEN 1 ELSE 0)

\* useEffect(..., [user]): a changed user runs the cleanup of the previous
\* effect (clearInterval) and then the effect again (setInterval if user)
TimersAfterSetUser(old, new, t) ==
  IF old = NULL /\ new = NULL THEN t
  ELSE (t - (IF old # NULL THEN 1 ELSE 0)) + (IF new # NULL THEN 1 ELSE 0)

\* setUser(u) with the render and the interval effect that follow; a state
\* update of an unmounted provider is dropped
SetUser(u) ==
  IF mounted
  THEN /\ user' = u
       /\ timers' = TimersAfterSetUser(user, u, timers)
  ELSE UNCHANGED <<user, timers>>

\* setIsLoading(b)
SetIsLoading(b) == isLoading' = (IF mounted THEN b ELSE isLoading)

\* setIsSubmitting(b) of the login page (a child of the provider)
SetIsSubmitting(b) == isSubmitting' = (IF mounted THEN b ELSE isSubmitting)

\* setTokens(tokens)
SetTokens(t) == accessToken' = t /\ refreshToken' = t

\* clearTokens()
ClearTokens == accessToken' = NoToken /\ refreshToken' = NoToken

\* ------------------------------------------------------------------ Init
Init ==
  /\ \E t \in {NoToken, 1} : accessToken = t /\ refreshToken = t
  /\ nextTok = 1
  /\ user = NULL
  /\ isLoading = TRUE
  /\ mounted = TRUE
  /\ timers = 0
  /\ initPc = "start"
  /\ initStat = [first401 |-> FALSE, refreshCalls |-> 0, meCalls |-> 0,
                 refreshed |-> FALSE, outcome |-> "none"]
  /\ loginPc = "idle"
  /\ loginStat = [outcome |-> "none", before |-> <<NoToken, NoToken, NULL>>,
                  error |-> NetworkError, toast |-> "", tok |-> NoToken]
  /\ isSubmitting = FALSE
  /\ logoutPc = "idle"
  /\ logoutStat = [outcome |-> "none", response |-> "none"]
  /\ ruPc = "idle"
  /\ bgFresh = 0
  /\ bgStale = 0
  /\ bgLast = "none"
  /\ lastReq = [via |-> "none", bearer |-> NoToken, stored |-> NoToken]
  /\ sigFilter = [sport |-> "All", date |-> "this_week"]
  /\ wpFilter = [sport |-> "All", betType |-> "All", status |-> "All", page |-> 1]
  /\ qCache = {}
  /\ qInflight = {}
  /\ fetches = 0
  /\ qLast = [key |-> <<>>, late |-> FALSE]
  /\ route = "signals"
  /\ searchParams = [k \in {"sport", "betType", "status", "date", "minWhales",
                              "minVolume", "sort"} |-> "absent"]
  /\ lastSet = [k \in DOMAIN searchParams |-> "unset"]
  /\ pendingInput = [minVolume |-> "", minWhales |-> ""]
  /\ wpState = [sportFilter |-> "All", betTypeFilter |-> "All", statusFilter |-> "All",
                gameDate |-> "", minVolume |-> "", minWhales |-> "", page |-> 1]
  /\ fOp = [op |-> "none", field |-> ""]
  /\ jOpen = FALSE
  /\ journalMode = "hidden"
  /\ journalEntry = [null |-> TRUE]
  /\ journalNotes = ""
  /\ journalError = NULL
  /\ notesExpanded = FALSE
  /\ existingJournal = [none |-> TRUE]
  /\ checkInflight = "none"
  /\ createCur = <<>>
  /\ createOld = <<>>
  /\ updInflight = <<>>
  /\ refInflight = FALSE
  /\ srvEntry = [unknown |-> TRUE]
  /\ jLast = [op |-> "none", msg |-> "", toast |-> ""]
  /\ sheetSignal = [none |-> TRUE]
  /\ whalePositions = <<>>
  /\ shownConsensus = <<>>
  /\ shownGroups = <<>>
  /\ clipboard = <<>>
  /\ derived = [fn |-> "none"]

\* ---------------------------------------------- fetchUser (mount effect)
loginVarsU == <<loginPc, loginStat, isSubmitting>>
logoutVarsU == <<logoutPc, logoutStat>>
bgVarsU == <<bgFresh, bgStale, bgLast>>

\* fetchUser, no stored token: setUser(null); setIsLoading(false); return
InitNoToken ==
  /\ initPc = "start" /\ mounted
  /\ ~isLoggedIn
  /\ SetUser(NULL) /\ SetIsLoading(FALSE)
  /\ initPc' = "done"
  /\ initStat' = [initStat EXCEPT !.outcome = "noToken"]
  /\ UNCHANGED <<accessToken, refreshToken, nextTok, mounted, loginVarsU,
                 logoutVarsU, ruPc, bgVarsU, lastReq>>

\* fetchUser, token stored: await getCurrentUser()
InitFetchMe ==
  /\ initPc = "start" /\ mounted
  /\ isLoggedIn
  /\ initPc' = "me1"
  /\ initStat' = [initStat EXCEPT !.meCalls = 1]
  /\ lastReq' = AuthFetchRequest("me")
  /\ UNCHANGED <<accessToken, refreshToken, nextTok, user, isLoading, mounted,
                 timers, loginVarsU, logoutVarsU, ruPc, bgVarsU>>

\* first getCurrentUser() resolves: setUser(userData); finally setIsLoading(false)
InitMe1Ok ==
  /\ initPc = "me1"
  /\ SetUser(USER) /\ SetIsLoading(FALSE)
  /\ initPc' = "done"
  /\ initStat' = [initStat EXCEPT !.outcome = "meOk"]
  /\ UNCHANGED <<accessToken, refreshToken, nextTok, mounted, loginVarsU,
                 logoutVarsU, ruPc, bgVarsU, lastReq>>

\* first getCurrentUser() rejects with AuthError 401: refreshAccessToken();
\* without a refresh token it returns null at once and the catch block
\* clears the tokens
InitMe1Unauthorized ==
  /\ initPc = "me1"
  /\ \E e \in FetchErrors : Is401(e)
  /\ IF refreshToken = NoToken
     THEN /\ ClearTokens
          /\ SetUser(NULL) /\ SetIsLoading(FALSE)
          /\ initPc' = "done"
          /\ initStat' = [initStat EXCEPT !.first401 = TRUE,
                                          !.refreshCalls = @ + 1,
                                          !.outcome = "refreshFail"]
          /\ UNCHANGED lastReq
     ELSE /\ initPc' = "refresh"
          /\ initStat' = [initStat EXCEPT !.first401 = TRUE,
                                          !.refreshCalls = @ + 1]
          /\ lastReq' = AuthFetchRequest("refresh")
          /\ UNCHANGED <<accessToken, refreshToken, user, isLoading, timers>>
  /\ UNCHANGED <<nextTok, mounted, loginVarsU, logoutVarsU, ruPc, bgVarsU>>

\* the variant that also clears the tokens (candidate fault)
InitMe1OtherError_Clears ==
  /\ initPc = "me1"
  /\ \E e \in FetchErrors : ~Is401(e)
  /\ ClearTokens
  /\ SetUser(NULL) /\ SetIsLoading(FALSE)
  /\ initPc' = "done"
  /\ initStat' = [initStat EXCEPT !.outcome = "other"]
  /\ UNCHANGED <<nextTok, mounted, loginVarsU, logoutVarsU, ruPc, bgVarsU,
                 lastReq>>

\* first getCurrentUser() rejects with anything else: console.error; setUser(null)
InitMe1OtherError ==
  /\ initPc = "me1"
  /\ \E e \in FetchErrors : ~Is401(e)
  /\ SetUser(NULL) /\ SetIsLoading(FALSE)
  /\ initPc' = "done"
  /\ initStat' = [initStat EXCEPT !.outcome = "other"]
  /\ UNCHANGED <<accessToken, refreshToken, nextTok, mounted, loginVarsU,
                 logoutVarsU, ruPc, bgVarsU, lastReq>>

\* refreshAccessToken() resolves with tokens: setTokens; retry getCurrentUser()
InitRefreshOk ==
  /\ initPc = "refresh"
  /\ nextTok < MaxTok
  /\ nextTok' = nextTok + 1
  /\ SetTokens(nextTok + 1)
  /\ initPc' = "me2"
  /\ initStat' = [initStat EXCEPT !.refreshed = TRUE, !.meCalls = @ + 1]
  /\ lastReq' = AuthFetchRequestWith("me", nextTok + 1)
  /\ UNCHANGED <<user, isLoading, mounted, timers, loginVarsU, logoutVarsU,
                 ruPc, bgVarsU>>

\* refreshAccessToken() fails: clearTokens() there, then clearTokens();
\* setUser(null) in fetchUser
InitRefreshFail ==
  /\ initPc = "refresh"
  /\ ClearTokens
  /\ SetUser(NULL) /\ SetIsLoading(FALSE)
  /\ initPc' = "done"
  /\ initStat' = [initStat EXCEPT !.outcome = "refreshFail"]
  /\ UNCHANGED <<nextTok, mounted, loginVarsU, logoutVarsU, ruPc, bgVarsU,
                 lastReq>>

\* the retried getCurrentUser() resolves: setUser(userData); return
InitMe2Ok ==
  /\ initPc = "me2"
  /\ SetUser(USER) /\ SetIsLoading(FALSE)
  /\ initPc' = "done"
  /\ initStat' = [initStat EXCEPT !.outcome = "retryOk"]
  /\ UNCHANGED <<accessToken, refreshToken, nextTok, mounted, loginVarsU,
                 logoutVarsU, ruPc, bgVarsU, lastReq>>

\* the variant that keeps the tokens after a failed retry (candidate fault)
InitMe2Fail_KeepsTokens ==
  /\ initPc = "me2"
  /\ SetUser(NULL) /\ SetIsLoading(FALSE)
  /\ initPc' = "done"
  /\ initStat' = [initStat EXCEPT !.outcome = "retryFail"]
  /\ UNCHANGED <<accessToken, refreshToken, nextTok, mounted, loginVarsU,
                 logoutVarsU, ruPc, bgVarsU, lastReq>>

\* the retried getCurrentUser() rejects: clearTokens(); setUser(null)
InitMe2Fail ==
  /\ initPc = "me2"
  /\ ClearTokens
  /\ SetUser(NULL) /\ SetIsLoading(FALSE)
  /\ initPc' = "done"
  /\ initStat' = [initStat EXCEPT !.outcome = "retryFail"]
  /\ UNCHANGED <<nextTok, mounted, loginVarsU, logoutVarsU, ruPc, bgVarsU,
                 lastReq>>

fetchUser ==
  \/ InitNoToken \/ InitFetchMe \/ InitMe1Ok \/ InitMe1Unauthorized
  \/ InitMe1OtherError \/ InitRefreshOk \/ InitRefreshFail
  \/ InitMe2Ok \/ InitMe2Fail

\* --------------------------------------- LoginPage.handleSubmit / login
initVarsU == <<initPc, initStat>>

\* toast.error chosen by the catch block of handleSubmit
ToastFor(e) ==
  IF e.auth
  THEN IF e.status = 423 THEN e.message
       ELSE IF e.status = 401 THEN "Invalid email or password"
       ELSE e.message
  ELSE "Login failed. Please try again."

\* handleSubmit with an empty email or password: toast and return
LoginSubmitEmpty ==
  /\ mounted /\ initPc # "start"
  /\ ~isSubmitting /\ loginPc = "idle"
  /\ loginStat' = [loginStat EXCEPT !.outcome = "none",
                                    !.toast = "Please enter email and password"]
  /\ UNCHANGED <<accessToken, refreshToken, nextTok, user, isLoading, mounted,
                 timers, initVarsU, loginPc, isSubmitting, logoutVarsU, ruPc,
                 bgVarsU, lastReq>>

\* handleSubmit: setIsSubmitting(true); login(): setIsLoading(true);
\* apiLogin issues POST /api/auth/login
LoginSubmit ==
  /\ mounted /\ initPc # "start"
  /\ ~isSubmitting /\ loginPc = "idle"
  /\ SetIsSubmitting(TRUE)
  /\ SetIsLoading(TRUE)
  /\ loginPc' = "login"
  /\ loginStat' = [loginStat EXCEPT !.outcome = "pending",
                                    !.before = <<accessToken, refreshToken, user>>,
                                    !.error = NetworkError,
                                    !.toast = "", !.tok = NoToken]
  /\ lastReq' = AuthFetchRequest("login")
  /\ UNCHANGED <<accessToken, refreshToken, nextTok, user, mounted, timers,
                 initVarsU, logoutVarsU, ruPc, bgVarsU>>

\* the login request resolves: setTokens(tokens); then getCurrentUser()
LoginReqOk ==
  /\ loginPc = "login"
  /\ nextTok < MaxTok
  /\ nextTok' = nextTok + 1
  /\ SetTokens(nextTok + 1)
  /\ loginPc' = "me"
  /\ loginStat' = [loginStat EXCEPT !.tok = nextTok + 1]
  /\ lastReq' = AuthFetchRequestWith("me", nextTok + 1)
  /\ UNCHANGED <<user, isLoading, mounted, timers, initVarsU, isSubmitting,
                 logoutVarsU, ruPc, bgVarsU>>

\* the login request rejects: finally setIsLoading(false); the error reaches
\* handleSubmit, which shows a toast and clears isSubmitting
LoginReqFail ==
  /\ loginPc = "login"
  /\ \E e \in FetchErrors :
       loginStat' = [loginStat EXCEPT !.outcome = "rejected", !.error = e,
                                      !.before = <<NoToken, NoToken, NULL>>,
                                      !.toast = ToastFor(e)]
  /\ SetIsLoading(FALSE)
  /\ SetIsSubmitting(FALSE)
  /\ loginPc' = "idle"
  /\ UNCHANGED <<accessToken, refreshToken, nextTok, user, mounted, timers,
                 initVarsU, logoutVarsU, ruPc, bgVarsU, lastReq>>

\* getCurrentUser() resolves: setUser(userData); finally setIsLoading(false);
\* handleSubmit shows the success toast.  Background refreshes still in
\* flight are from now on older than a completed login.
LoginMeOk ==
  /\ loginPc = "me"
  /\ SetUser(USER)
  /\ SetIsLoading(FALSE)
  /\ SetIsSubmitting(FALSE)
  /\ loginPc' = "idle"
  /\ loginStat' = [loginStat EXCEPT !.outcome = "resolved",
                                    !.before = <<NoToken, NoToken, NULL>>,
                                    !.toast = "Logged in successfully"]
  /\ IF mounted
     THEN bgStale' = bgStale + bgFresh /\ bgFresh' = 0
     ELSE UNCHANGED <<bgFresh, bgStale>>
  /\ UNCHANGED <<accessToken, refreshToken, nextTok, mounted, initVarsU,
                 logoutVarsU, ruPc, bgLast, lastReq>>

\* getCurrentUser() rejects after the tokens were stored: login has no catch,
\* so only finally setIsLoading(false) runs and the error propagates
LoginMeFail ==
  /\ loginPc = "me"
  /\ \E e \in FetchErrors :
       loginStat' = [loginStat EXCEPT !.outcome = "rejected", !.error = e,
                                      !.before = <<NoToken, NoToken, NULL>>,
                                      !.toast = ToastFor(e)]
  /\ SetIsLoading(FALSE)
  /\ SetIsSubmitting(FALSE)
  /\ loginPc' = "idle"
  /\ UNCHANGED <<accessToken, refreshToken, nextTok, user, mounted, timers,
                 initVarsU, logoutVarsU, ruPc, bgVarsU, lastReq>>

login ==
  \/ LoginSubmitEmpty \/ LoginSubmit \/ LoginReqOk \/ LoginReqFail
  \/ LoginMeOk \/ LoginMeFail

\* ------------------------------------------------ Header.handleLogout / logout

\* the logout button is rendered when !isLoading && isAuthenticated && user;
\* logout(): setIsLoading(true); apiLogout issues POST /api/auth/logout
LogoutStart ==
  /\ mounted /\ ~isLoading /\ user # NULL
  /\ logoutPc = "idle"
  /\ SetIsLoading(TRUE)
  /\ logoutPc' = "req"
  /\ logoutStat' = [outcome |-> "pending", response |-> "none"]
  /\ lastReq' = AuthFetchRequest("logout")
  /\ UNCHANGED <<accessToken, refreshToken, nextTok, user, mounted, timers,
                 initVarsU, loginVarsU, ruPc, bgVarsU>>

\* the logout request resolves: finally clearTokens(); then setUser(null);
\* setIsLoading(false)
LogoutOk ==
  /\ logoutPc = "req"
  /\ ClearTokens
  /\ SetUser(NULL) /\ SetIsLoading(FALSE)
  /\ logoutPc' = "idle"
  /\ logoutStat' = [outcome |-> "resolved", response |-> "ok"]
  /\ UNCHANGED <<nextTok, mounted, initVarsU, loginVarsU, ruPc, bgVarsU, lastReq>>

\* apiLogout without its catch/finally (candidate fault): the rejection
\* escapes and the tokens stay
LogoutFail_Rejects ==
  /\ logoutPc = "req"
  /\ \E e \in FetchErrors : TRUE
  /\ SetUser(NULL) /\ SetIsLoading(FALSE)
  /\ logoutPc' = "idle"
  /\ logoutStat' = [outcome |-> "rejected", response |-> "error"]
  /\ UNCHANGED <<accessToken, refreshToken, nextTok, mounted, initVarsU,
                 loginVarsU, ruPc, bgVarsU, lastReq>>

\* the logout request rejects (error status or network failure): catch ignores
\* it, finally clearTokens(); then setUser(null); setIsLoading(false)
LogoutFail ==
  /\ logoutPc = "req"
  /\ \E e \in FetchErrors : TRUE
  /\ ClearTokens
  /\ SetUser(NULL) /\ SetIsLoading(FALSE)
  /\ logoutPc' = "idle"
  /\ logoutStat' = [outcome |-> "resolved", response |-> "error"]
  /\ UNCHANGED <<nextTok, mounted, initVarsU, loginVarsU, ruPc, bgVarsU, lastReq>>

logout == LogoutStart \/ LogoutOk \/ LogoutFail

\* ------------------------------------------------------------ refreshUser

\* refreshUser(): if (!isLoggedIn()) return; await getCurrentUser()
RefreshUserStart ==
  /\ mounted /\ initPc # "start"
  /\ ruPc = "idle"
  /\ isLoggedIn
  /\ ruPc' = "me"
  /\ lastReq' = AuthFetchRequest("me")
  /\ UNCHANGED <<accessToken, refreshToken, nextTok, user, isLoading, mounted,
                 timers, initVarsU, loginVarsU, logoutVarsU, bgVarsU>>

\* getCurrentUser() resolves: setUser(userData)
RefreshUserOk ==
  /\ ruPc = "me"
  /\ SetUser(USER)
  /\ ruPc' = "idle"
  /\ UNCHANGED <<accessToken, refreshToken, nextTok, isLoading, mounted,
                 initVarsU, loginVarsU, logoutVarsU, bgVarsU, lastReq>>

\* getCurrentUser() rejects: the error is ignored
RefreshUserFail ==
  /\ ruPc = "me"
  /\ ruPc' = "idle"
  /\ UNCHANGED <<accessToken, refreshToken, nextTok, user, isLoading, mounted,
                 timers, initVarsU, loginVarsU, logoutVarsU, bgVarsU, lastReq>>

refreshUser == RefreshUserStart \/ RefreshUserOk \/ RefreshUserFail

\* ------------------------------------------------ refresh interval effect

\* the interval fires: refreshAccessToken(); without a refresh token it
\* returns null at once and the callback does setUser(null)
BgTick ==
  /\ timers > 0
  /\ bgFresh + bgStale < MaxBg
  /\ IF refreshToken = NoToken
     THEN /\ SetUser(NULL)
          /\ bgLast' = "noToken"
          /\ UNCHANGED <<bgFresh, bgStale, lastReq>>
     ELSE /\ bgFresh' = bgFresh + 1
          /\ lastReq' = AuthFetchRequest("refresh")
          /\ UNCHANGED <<user, timers, bgStale, bgLast>>
  /\ UNCHANGED <<accessToken, refreshToken, nextTok, isLoading, mounted,
                 initVarsU, loginVarsU, logoutVarsU, ruPc>>

\* one refresh in flight ends; stale tells which kind
BgTake(stale) ==
  IF stale
  THEN bgStale > 0 /\ bgStale' = bgStale - 1 /\ UNCHANGED bgFresh
  ELSE bgFresh > 0 /\ bgFresh' = bgFresh - 1 /\ UNCHANGED bgStale

\* the refresh request resolves: setTokens(tokens); refreshed is truthy
BgRefreshOk ==
  /\ \E stale \in BOOLEAN :
       /\ BgTake(stale)
       /\ bgLast' = "ok"
  /\ nextTok < MaxTok
  /\ nextTok' = nextTok + 1
  /\ SetTokens(nextTok + 1)
  /\ UNCHANGED <<user, isLoading, mounted, timers, initVarsU, loginVarsU,
                 logoutVarsU, ruPc, lastReq>>

\* the refresh request rejects: clearTokens() in refreshAccessToken, which
\* returns null; the callback does setUser(null)
BgRefreshFail ==
  /\ \E stale \in BOOLEAN :
       /\ BgTake(stale)
       /\ bgLast' = "fail"
  /\ ClearTokens
  /\ SetUser(NULL)
  /\ UNCHANGED <<nextTok, isLoading, mounted, initVarsU, loginVarsU,
                 logoutVarsU, ruPc, lastReq>>

refreshInterval == BgTick \/ BgRefreshOk \/ BgRefreshFail

\* the provider unmounts: the effect's cleanup clears the interval
Teardown ==
  /\ mounted /\ initPc # "start"
  /\ mounted' = FALSE
  /\ timers' = IF user # NULL THEN timers - 1 ELSE timers
  /\ UNCHANGED <<accessToken, refreshToken, nextTok, user, isLoading,
                 initVarsU, loginVarsU, logoutVarsU, ruPc, bgVarsU, lastReq>>

\* ------------------------------------------------------------- lib/api

\* a data hook calls fetchApi (signals, positions, journal, meta)
DataFetch ==
  /\ mounted /\ initPc # "start"
  /\ lastReq' = FetchApiRequest("data")
  /\ UNCHANGED <<accessToken, refreshToken, nextTok, user, isLoading, mounted,
                 timers, initVarsU, loginVarsU, logoutVarsU, ruPc, bgVarsU>>

AuthNext ==
  \/ fetchUser \/ login \/ logout \/ refreshUser \/ refreshInterval
  \/ Teardown \/ DataFetch

Next == AuthNext /\ UNCHANGED <<queryVars, filterVars, journalVars, consensusVars, derived>>

Spec == Init /\ [][Next]_vars

\* =========================================================== list queries
Undefined == "undefined"
PAGE_SIZE == 25
SportFilters == {"All", "NBA"}
BetTypeFilters == {"All", "Totals"}
StatusFilters == {"All", "open"}
NoData == [none |-> TRUE]

\* x !== 'All' ? x : undefined   (the pages' argument for the hooks)
OmitAll(x) == IF x # "All" THEN x ELSE Undefined

\* x && x !== 'All' ? x : undefined   (the hooks' request parameter)
TruthyNotAll(x) == IF x # Undefined /\ x # "" /\ x # "All" THEN x ELSE Undefined

\* a key that leaves out the date filter (candidate fault)
useSignalsKey_NoDate(sport, dateFilter) == <<"signals", sport>>

\* useSignals: queryKey: ['signals', sport, dateFilter]
useSignalsKey(sport, dateFilter) == <<"signals", sport, dateFilter>>

\* useSignals queryFn: getSignals({sport, date_filter: dateFilter || 'this_week'})
useSignalsRequest(sport, dateFilter) ==
  [resource |-> "signals", sport |-> TruthyNotAll(sport),
   date_filter |-> IF dateFilter # Undefined /\ dateFilter # "" THEN dateFilter
                   ELSE "this_week"]

\* useWhalePlays: queryKey: ['whale-plays', sport, bet_type, status, page, page_size]
useWhalePlaysKey(p) ==
  <<"whale-plays", p.sport, p.bet_type, p.status, p.page, p.page_size>>

\* useWhalePlays queryFn: getWhalePlays({...})
useWhalePlaysRequest(p) ==
  [resource |-> "whale-plays", sport |-> TruthyNotAll(p.sport),
   bet_type |-> TruthyNotAll(p.bet_type), status |-> TruthyNotAll(p.status),
   page |-> p.page, page_size |-> p.page_size]

\* SignalsPage: the arguments of useSignals for a filter state
SignalsArgs(f) == <<OmitAll(f.sport), f.date>>

\* WhalePlaysPage: the argument of useWhalePlays for a filter state
WhalePlaysArgs(f) ==
  [sport |-> OmitAll(f.sport), bet_type |-> OmitAll(f.betType),
   status |-> OmitAll(f.status), page |-> f.page, page_size |-> PAGE_SIZE]

SignalsKeyOf(f) == useSignalsKey(SignalsArgs(f)[1], SignalsArgs(f)[2])
SignalsRequestOf(f) == useSignalsRequest(SignalsArgs(f)[1], SignalsArgs(f)[2])
WhalePlaysKeyOf(f) == useWhalePlaysKey(WhalePlaysArgs(f))
WhalePlaysRequestOf(f) == useWhalePlaysRequest(WhalePlaysArgs(f))

\* useQuery result: the data cached under the observed key, else undefined
QueryData(cache, key) ==
  IF \E c \in cache : c.key = key
  THEN (CHOOSE c \in cache : c.key = key).data
  ELSE NoData

\* useQuery observing key: a fetch with the current queryFn starts when no
\* fetch for the key is in flight and the key has no data or stale data;
\* otherwise the observer joins what exists
Observe(key, req, inflight, n) ==
  \/ /\ \A f \in inflight : f.key # key
     /\ n < MaxFetches
     /\ qInflight' = inflight \cup {[key |-> key, req |-> req]}
     /\ fetches' = n + 1
  \/ /\ (\E f \in inflight : f.key = key) \/ QueryData(qCache, key) # NoData
     /\ qInflight' = inflight
     /\ fetches' = n

\* SignalsPage.updateParam('sport' | 'date', v): the URL changes, the page
\* renders again and useSignals observes the key of the new arguments
SignalsUpdateParam ==
  /\ \E f \in [sport : SportFilters, date : {"this_week", "today"}] :
       /\ f # sigFilter
       /\ f.sport = sigFilter.sport \/ f.date = sigFilter.date
       /\ sigFilter' = f
       /\ Observe(SignalsKeyOf(f), SignalsRequestOf(f), qInflight, fetches)
  /\ UNCHANGED <<wpFilter, qCache, qLast>>

\* WhalePlaysPage.handleFilterChange(setter, value): setter(value); setPage(1)
WhalePlaysFilterChange ==
  /\ \E f \in [sport : SportFilters, betType : BetTypeFilters,
                status : StatusFilters, page : {1}] :
       /\ \/ f = [wpFilter EXCEPT !.sport = f.sport, !.page = 1]
          \/ f = [wpFilter EXCEPT !.betType = f.betType, !.page = 1]
          \/ f = [wpFilter EXCEPT !.status = f.status, !.page = 1]
       /\ f # wpFilter
       /\ wpFilter' = f
       /\ Observe(WhalePlaysKeyOf(f), WhalePlaysRequestOf(f), qInflight, fetches)
  /\ UNCHANGED <<sigFilter, qCache, qLast>>

\* WhalePlaysPage.handlePageChange(newPage): setPage(newPage)
WhalePlaysPageChange ==
  /\ \E pg \in 1..MaxPage :
       /\ pg # wpFilter.page
       /\ wpFilter' = [wpFilter EXCEPT !.page = pg]
       /\ Observe(WhalePlaysKeyOf(wpFilter'), WhalePlaysRequestOf(wpFilter'),
                  qInflight, fetches)
  /\ UNCHANGED <<sigFilter, qCache, qLast>>

\* mount, refetchOnWindowFocus or invalidateQueries: the observed queries
\* fetch again unless a fetch for their key is in flight
QueryRefetch ==
  /\ \E r \in {"signals", "whale-plays"} :
       LET key == IF r = "signals" THEN SignalsKeyOf(sigFilter)
                  ELSE WhalePlaysKeyOf(wpFilter)
           req == IF r = "signals" THEN SignalsRequestOf(sigFilter)
                  ELSE WhalePlaysRequestOf(wpFilter)
       IN /\ \A f \in qInflight : f.key # key
          /\ fetches < MaxFetches
          /\ qInflight' = qInflight \cup {[key |-> key, req |-> req]}
          /\ fetches' = fetches + 1
  /\ UNCHANGED <<sigFilter, wpFilter, qCache, qLast>>

\* a response arrives, in any order: its data is stored under the key of
\* the query that asked for it
QueryResolve ==
  /\ \E f \in qInflight :
       /\ qInflight' = qInflight \ {f}
       /\ qCache' = {c \in qCache : c.key # f.key}
                      \cup {[key |-> f.key, data |-> f.req]}
       /\ qLast' = [key |-> f.key,
                    late |-> f.key \notin {SignalsKeyOf(sigFilter),
                                           WhalePlaysKeyOf(wpFilter)}]
  /\ UNCHANGED <<sigFilter, wpFilter, fetches>>

\* a request fails: the query keeps the data it had
QueryReject ==
  /\ \E f \in qInflight : qInflight' = qInflight \ {f}
  /\ UNCHANGED <<sigFilter, wpFilter, qCache, fetches, qLast>>

QueryNext ==
  /\ \/ SignalsUpdateParam \/ WhalePlaysFilterChange \/ WhalePlaysPageChange
     \/ QueryRefetch \/ QueryResolve \/ QueryReject
  /\ UNCHANGED <<authVars, filterVars, journalVars, consensusVars, derived>>

SpecQuery == Init /\ [][QueryNext]_vars

\* what SignalsPage and WhalePlaysPage render
signalsShown == QueryData(qCache, SignalsKeyOf(sigFilter))
whalePlaysShown == QueryData(qCache, WhalePlaysKeyOf(wpFilter))

\* ======================================================= auth session claims

\* C1: a background refresh that fails after a login completed during its
\* flight leaves the tokens stored by that login and the user as they are.
C1_StaleRefreshFailureIsIgnored ==
  [][ ( /\ bgStale' = bgStale - 1
        /\ bgLast' = "fail"
        /\ mounted
        /\ loginStat.outcome = "resolved"
        /\ loginStat.tok # NoToken /\ accessToken = loginStat.tok
        /\ user = USER )
      => ( /\ accessToken' = accessToken
           /\ refreshToken' = refreshToken
           /\ user' = user ) ]_vars

\* C2: a login that rejects leaves the token store and the user as they
\* were when login was called.
C2_FailedLoginStoresNothing ==
  [][ ( /\ loginPc # "idle" /\ loginPc' = "idle"
        /\ loginStat'.outcome = "rejected" )
      => <<accessToken', refreshToken', user'>> = loginStat.before ]_vars

\* C3: when logout() completes, whatever the endpoint answered, the tokens
\* are cleared, the user is null and the promise is resolved, not rejected.
C3_LogoutAlwaysClears ==
  [][ (logoutPc = "req" /\ logoutPc' = "idle")
      => ( /\ accessToken' = NoToken /\ refreshToken' = NoToken
           /\ (mounted => user' = NULL)
           /\ logoutStat'.outcome = "resolved" ) ]_vars

C3_Witness ==
  /\ logoutStat = [outcome |-> "resolved", response |-> "error"]
  /\ logoutPc = "idle" /\ mounted
  /\ accessToken = NoToken /\ user = NULL

\* C4: initialisation whose first user fetch fails with 401 calls the token
\* refresh exactly once, retries the user fetch exactly once iff the refresh
\* succeeded, ends unauthenticated with tokens cleared when the refresh or
\* the retry fails, ends authenticated when the retry succeeds, and ends
\* with isLoading false.
C4_RefreshThenRetryOnce ==
  [][ (initPc # "done" /\ initPc' = "done" /\ initStat'.first401)
      => ( /\ initStat'.refreshCalls = 1
           /\ initStat'.meCalls = (IF initStat'.refreshed THEN 2 ELSE 1)
           /\ initStat'.outcome \in {"refreshFail", "retryFail", "retryOk"}
           /\ (initStat'.outcome = "refreshFail") = ~initStat'.refreshed
           /\ initStat'.outcome \in {"refreshFail", "retryFail"}
                => ( /\ accessToken' = NoToken /\ refreshToken' = NoToken
                     /\ (mounted => user' = NULL) )
           /\ initStat'.outcome = "retryOk" => (mounted => user' = USER)
           /\ mounted => isLoading' = FALSE ) ]_vars

C4_Witness ==
  /\ initPc = "done" /\ initStat.first401 /\ initStat.outcome = "retryOk"
  /\ initStat.refreshCalls = 1 /\ initStat.meCalls = 2
  /\ mounted /\ user = USER /\ ~isLoading

\* C5: initialisation whose first user fetch fails with anything but 401
\* ends unauthenticated, calls no refresh, issues no request and leaves the
\* stored tokens as they are.
C5_OtherFailureKeepsTokens ==
  [][ (initPc = "me1" /\ initPc' = "done" /\ ~initStat'.first401
       /\ initStat'.outcome = "other")
      => ( /\ mounted => user' = NULL
           /\ initStat'.refreshCalls = 0
           /\ lastReq' = lastReq
           /\ accessToken' = accessToken /\ refreshToken' = refreshToken ) ]_vars

C5_Witness ==
  /\ initPc = "done" /\ initStat.outcome = "other"
  /\ mounted /\ user = NULL /\ accessToken # NoToken
  /\ loginPc = "idle" /\ loginStat.outcome = "none"

\* C6: an interval is scheduled only while the provider is mounted with a
\* non-null user, there is never more than one, and none remains after
\* logout, after a failed background refresh or after teardown.
C6_TimerOnlyWhileAuthenticated ==
  /\ [](/\ timers \in {0, 1}
        /\ (timers > 0 => (mounted /\ user # NULL)))
  /\ [][ ( \/ (logoutPc = "req" /\ logoutPc' = "idle")
           \/ (bgFresh' + bgStale' < bgFresh + bgStale /\ bgLast' = "fail")
           \/ (bgLast' # bgLast /\ bgLast' = "noToken")
           \/ (mounted /\ ~mounted') )
         => timers' = 0 ]_vars

C6_Witness ==
  /\ mounted /\ bgLast = "fail"
  /\ timers = 0 /\ user = NULL
  /\ logoutStat.outcome = "resolved"

\* C7: a background refresh request and a login request are never in flight
\* at the same time.
C7_RefreshNeverOverlapsLogin ==
  ~(loginPc = "login" /\ bgFresh + bgStale > 0)

\* C8: every request carries the bearer token exactly when one is stored at
\* the moment it is issued, and carries that token.
C8_BearerIffTokenStored ==
  lastReq.via # "none" => lastReq.bearer = lastReq.stored

\* the message C9 expects for an error
C9_ClaimedToast(e) ==
  IF e.auth /\ e.status = 423 THEN e.message
  ELSE IF e.auth /\ e.status = 401 THEN "Invalid email or password"
  ELSE "Login failed. Please try again."

\* C9: after a failed login the toast is the server message for 423, the
\* invalid-credentials message for 401 and the generic message otherwise.
C9_ToastDependsOnStatusOnly ==
  loginStat.outcome = "rejected" => loginStat.toast = C9_ClaimedToast(loginStat.error)

Absent == "absent"           \* searchParams.get(key) === null
ParamKeys == {"sport", "betType", "status", "date", "minWhales", "minVolume", "sort"}

\* parseInt(s, 10) / parseFloat(s) of a non-empty decimal string; a threshold
\* parameter is <<n>>, or <<>> for undefined
ParseNumber(s) == CASE s = "5" -> 5 [] s = "10" -> 10 [] OTHER -> 0

\* SignalsPage.updateParam: isDefault
SignalsIsDefault(key, value) ==
  \/ key = "sport" /\ value = "All"
  \/ key = "betType" /\ value = "All"
  \/ key = "date" /\ value = "this_week"
  \/ key = "sort" /\ value = "created"

\* SignalsPage.updateParam: if (value && !isDefault) set(key, value) else delete(key)
SignalsUpdatedParams(params, key, value) ==
  IF value # "" /\ ~SignalsIsDefault(key, value)
  THEN [params EXCEPT ![key] = value]
  ELSE [params EXCEPT ![key] = Absent]

\* an isDefault that forgets the status default (candidate fault)
WhaleBetsIsDefault_NoStatus(key, value) ==
  \/ key = "sport" /\ value = "All"
  \/ key = "betType" /\ value = "All"
  \/ key = "sort" /\ value = "consensus"
  \/ value = ""

\* WhalePlaysPage.updateParam: isDefault (query-string version of the page)
WhaleBetsIsDefault(key, value) ==
  \/ key = "sport" /\ value = "All"
  \/ key = "betType" /\ value = "All"
  \/ key = "status" /\ value = "open"
  \/ key = "sort" /\ value = "consensus"
  \/ value = ""

\* WhalePlaysPage.updateParam: if (!isDefault) set(key, value) else delete(key)
WhaleBetsUpdatedParams(params, key, value) ==
  IF ~WhaleBetsIsDefault(key, value)
  THEN [params EXCEPT ![key] = value]
  ELSE [params EXCEPT ![key] = Absent]

\* searchParams.get(key) || ''
GetOrEmpty(params, key) == IF params[key] = Absent THEN "" ELSE params[key]

\* searchParams.get(key) || dflt
GetOr(params, key, dflt) ==
  IF params[key] = Absent \/ params[key] = "" THEN dflt ELSE params[key]

\* WhalePlaysPage (query-string version): the argument of useGroupedWhaleBets
GroupedWhaleBetsParams(params) ==
  [sport |-> OmitAll(GetOr(params, "sport", "All")),
   bet_type |-> OmitAll(GetOr(params, "betType", "All")),
   status |-> OmitAll(GetOr(params, "status", "open")),
   game_date |-> IF GetOrEmpty(params, "date") # ""
                 THEN GetOrEmpty(params, "date") ELSE Undefined,
   min_whales |-> IF GetOrEmpty(params, "minWhales") # ""
                  THEN <<ParseNumber(GetOrEmpty(params, "minWhales"))>> ELSE <<>>,
   min_volume |-> IF GetOrEmpty(params, "minVolume") # ""
                  THEN <<ParseNumber(GetOrEmpty(params, "minVolume"))>> ELSE <<>>,
   expand |-> TRUE]

\* WhalePlaysPage (paginated version): the argument of useWhalePlays
PagedWhalePlaysParams(s) ==
  [sport |-> OmitAll(s.sportFilter), bet_type |-> OmitAll(s.betTypeFilter),
   status |-> OmitAll(s.statusFilter),
   game_date |-> IF s.gameDate # "" THEN s.gameDate ELSE Undefined,
   min_volume |-> IF s.minVolume # "" THEN <<ParseNumber(s.minVolume)>> ELSE <<>>,
   min_whales |-> IF s.minWhales # "" THEN <<ParseNumber(s.minWhales)>> ELSE <<>>,
   page |-> s.page, page_size |-> PAGE_SIZE]

\* a handleFilterChange that forgets setPage(1) (candidate fault)
handleFilterChange_KeepsPage(s, field, value) == [s EXCEPT ![field] = value]

\* handleFilterChange(setter, value): setter(value); setPage(1)
handleFilterChange(s, field, value) == [s EXCEPT ![field] = value, !.page = 1]

\* handlePageChange(newPage): setPage(newPage)
handlePageChange(s, newPage) == [s EXCEPT !.page = newPage]

\* a header link to another page: the page mounts with an empty query string
\* and fresh component state
Navigate ==
  /\ \E r \in {"signals", "whaleBets", "whalePlays"} :
       /\ r # route
       /\ route' = r
  /\ searchParams' = [k \in ParamKeys |-> Absent]
  /\ lastSet' = [k \in ParamKeys |-> "unset"]
  /\ pendingInput' = [minVolume |-> "", minWhales |-> ""]
  /\ wpState' = [sportFilter |-> "All", betTypeFilter |-> "All", statusFilter |-> "All",
                 gameDate |-> "", minVolume |-> "", minWhales |-> "", page |-> 1]
  /\ fOp' = [op |-> "navigate", field |-> ""]

\* SignalsPage: a sport badge or one of the three selects calls updateParam
SignalsPageUpdateParam ==
  /\ route = "signals"
  /\ \E key \in {"sport", "betType", "date", "sort"} :
     \E value \in (CASE key = "sport" -> SportFilters
                     [] key = "betType" -> BetTypeFilters
                     [] key = "date" -> {"this_week", "today"}
                     [] OTHER -> {"created", "gameTime"}) :
       /\ searchParams' = SignalsUpdatedParams(searchParams, key, value)
       /\ lastSet' = [lastSet EXCEPT ![key] = value]
       /\ fOp' = [op |-> "updateParam", field |-> ""]
  /\ UNCHANGED <<route, pendingInput, wpState>>

\* WhalePlaysPage (query-string version): a badge, a select, the date input
\* or its clear button calls updateParam
WhaleBetsUpdateParam ==
  /\ route = "whaleBets"
  /\ \E key \in {"sport", "betType", "status", "date", "sort"} :
     \E value \in (CASE key = "sport" -> SportFilters
                     [] key = "betType" -> BetTypeFilters
                     [] key = "status" -> StatusFilters
                     [] key = "date" -> {"", "2025-01-15"}
                     [] OTHER -> {"consensus", "whales"}) :
       /\ searchParams' = WhaleBetsUpdatedParams(searchParams, key, value)
       /\ lastSet' = [lastSet EXCEPT ![key] = value]
       /\ fOp' = [op |-> "updateParam", field |-> ""]
  /\ UNCHANGED <<route, pendingInput, wpState>>

\* the commit of a pending value: updateParam(field, value) on the
\* query-string version, handleFilterChange(setter, value) on the paginated one
ThresholdApply(field, value) ==
  IF route = "whaleBets"
  THEN /\ searchParams' = WhaleBetsUpdatedParams(searchParams, field, value)
       /\ lastSet' = [lastSet EXCEPT ![field] = value]
       /\ wpState' = wpState
  ELSE /\ wpState' = handleFilterChange(wpState, field, value)
       /\ UNCHANGED <<searchParams, lastSet>>

\* the applied value: searchParams.get(field) || '' or the useState value
AppliedThreshold(r, params, s, field) ==
  IF r = "whaleBets" THEN GetOrEmpty(params, field) ELSE s[field]

\* an onChange that commits each keystroke (candidate fault)
ThresholdType_Applies ==
  /\ route \in {"whaleBets", "whalePlays"}
  /\ \E field \in {"minVolume", "minWhales"} : \E v \in {"", "5", "10"} :
       /\ v # pendingInput[field]
       /\ pendingInput' = [pendingInput EXCEPT ![field] = v]
       /\ ThresholdApply(field, v)
       /\ fOp' = [op |-> "type", field |-> field]
  /\ UNCHANGED route

\* min whales / min volume input, onChange: setMinWhalesInput(e.target.value)
ThresholdType ==
  /\ route \in {"whaleBets", "whalePlays"}
  /\ \E field \in {"minVolume", "minWhales"} : \E v \in {"", "5", "10"} :
       /\ v # pendingInput[field]
       /\ pendingInput' = [pendingInput EXCEPT ![field] = v]
       /\ fOp' = [op |-> "type", field |-> field]
  /\ UNCHANGED <<route, searchParams, lastSet, wpState>>

\* onKeyDown with e.key === 'Enter'
ThresholdEnter ==
  /\ route \in {"whaleBets", "whalePlays"}
  /\ \E field \in {"minVolume", "minWhales"} :
       /\ ThresholdApply(field, pendingInput[field])
       /\ fOp' = [op |-> "enter", field |-> field]
  /\ UNCHANGED <<route, pendingInput>>

\* onBlur: if (input !== applied) commit
ThresholdBlur ==
  /\ route \in {"whaleBets", "whalePlays"}
  /\ \E field \in {"minVolume", "minWhales"} :
       /\ IF pendingInput[field] # AppliedThreshold(route, searchParams, wpState, field)
          THEN ThresholdApply(field, pendingInput[field])
          ELSE UNCHANGED <<searchParams, lastSet, wpState>>
       /\ fOp' = [op |-> "blur", field |-> field]
  /\ UNCHANGED <<route, pendingInput>>

\* the X button, rendered while the input is not empty:
\* setMinWhalesInput(''); commit of ''
ThresholdClear ==
  /\ route \in {"whaleBets", "whalePlays"}
  /\ \E field \in {"minVolume", "minWhales"} :
       /\ pendingInput[field] # ""
       /\ pendingInput' = [pendingInput EXCEPT ![field] = ""]
       /\ ThresholdApply(field, "")
       /\ fOp' = [op |-> "clear", field |-> field]
  /\ UNCHANGED route

\* WhalePlaysPage (paginated version): a badge, a select, the date input or
\* its clear button calls handleFilterChange
PagedFilterChange ==
  /\ route = "whalePlays"
  /\ \E field \in {"sportFilter", "betTypeFilter", "statusFilter", "gameDate"} :
     \E value \in (CASE field = "sportFilter" -> SportFilters
                     [] field = "betTypeFilter" -> BetTypeFilters
                     [] field = "statusFilter" -> StatusFilters
                     [] OTHER -> {"", "2025-01-15"}) :
       /\ wpState' = handleFilterChange(wpState, field, value)
       /\ fOp' = [op |-> "filter", field |-> ""]
  /\ UNCHANGED <<route, searchParams, lastSet, pendingInput>>

\* WhalePlaysPage (paginated version): a pagination button calls
\* handlePageChange
PagedPageChange ==
  /\ route = "whalePlays"
  /\ \E newPage \in 1..MaxPage :
       /\ wpState' = handlePageChange(wpState, newPage)
       /\ fOp' = [op |-> "page", field |-> ""]
  /\ UNCHANGED <<route, searchParams, lastSet, pendingInput>>

FilterNext ==
  /\ \/ Navigate \/ SignalsPageUpdateParam \/ WhaleBetsUpdateParam
     \/ ThresholdType \/ ThresholdEnter \/ ThresholdBlur \/ ThresholdClear
     \/ PagedFilterChange \/ PagedPageChange
  /\ UNCHANGED <<authVars, queryVars, journalVars, consensusVars, derived>>

SpecFilters == Init /\ [][FilterNext]_vars

\* ============================================================ filter claims

\* the documented defaults of the two pages that persist their filters
C11_Defaults(r) ==
  IF r = "signals"
  THEN [sport |-> "All", betType |-> "All", date |-> "this_week", sort |-> "created"]
  ELSE [sport |-> "All", betType |-> "All", status |-> "open", sort |-> "consensus"]

\* C11: on the Signals page and the Whale Bets page, starting from an empty
\* query string, no persisted key holds its documented default or an empty
\* value, and every key whose last set value is neither holds that value.
C11_QueryStringIsCanonical ==
  route \in {"signals", "whaleBets"} =>
    \A k \in ParamKeys :
      /\ searchParams[k] # ""
      /\ k \in DOMAIN C11_Defaults(route) => searchParams[k] # C11_Defaults(route)[k]
      /\ ( /\ lastSet[k] \notin {"unset", ""}
           /\ ~(k \in DOMAIN C11_Defaults(route) /\ lastSet[k] = C11_Defaults(route)[k]) )
         => searchParams[k] = lastSet[k]

\* a default was set for status and an empty value for minWhales, and a
\* non-default sport is stored
C11_Witness ==
  /\ route = "whaleBets"
  /\ lastSet["status"] = "open" /\ searchParams["status"] = Absent
  /\ lastSet["minWhales"] = "" /\ searchParams["minWhales"] = Absent
  /\ lastSet["sport"] = "NBA" /\ searchParams["sport"] = "NBA"

\* the six filters of the paginated page
C12_Filters(s) ==
  <<s.sportFilter, s.betTypeFilter, s.statusFilter, s.gameDate, s.minVolume, s.minWhales>>

\* C12: on the paginated whale-plays page every change of a filter other
\* than the page sets the page to 1, and a page change leaves every filter
\* as it was.
C12_FilterChangeResetsPage ==
  [][ (route = "whalePlays" /\ route' = "whalePlays") =>
        /\ C12_Filters(wpState') # C12_Filters(wpState) => wpState'.page = 1
        /\ fOp'.op = "page" => C12_Filters(wpState') = C12_Filters(wpState) ]_vars

\* a filter was changed while page 2 was shown
C12_Witness ==
  /\ route = "whalePlays" /\ fOp.op \in {"filter", "enter", "blur", "clear"}
  /\ wpState.page = 1 /\ wpState.minVolume = "10" /\ wpState.sportFilter = "NBA"

\* the argument of the page's list hook: a request can start only when it changes
C13_HookParams(r, params, s) ==
  IF r = "whaleBets" THEN GroupedWhaleBetsParams(params) ELSE PagedWhalePlaysParams(s)

\* C13: for min volume and min whales, typing changes only the pending
\* value and changes nothing a request depends on; Enter and blur make the
\* applied value equal to the pending one; the clear control empties the
\* applied value at once; no other gesture on the page changes an applied value.
C13_AppliedChangesOnlyAtCommit ==
  [][ (route \in {"whaleBets", "whalePlays"} /\ route' = route) =>
        \A f \in {"minVolume", "minWhales"} :
          LET applied  == AppliedThreshold(route, searchParams, wpState, f)
              applied2 == AppliedThreshold(route', searchParams', wpState', f)
          IN /\ fOp'.op = "type" =>
                  /\ applied2 = applied
                  /\ C13_HookParams(route', searchParams', wpState')
                       = C13_HookParams(route, searchParams, wpState)
             /\ (fOp'.op \in {"enter", "blur"} /\ fOp'.field = f) =>
                  /\ applied2 = pendingInput[f]
                  /\ pendingInput'[f] = pendingInput[f]
             /\ (fOp'.op = "clear" /\ fOp'.field = f) =>
                  applied2 = "" /\ pendingInput'[f] = ""
             /\ applied2 # applied =>
                  fOp'.op \in {"enter", "blur", "clear"} /\ fOp'.field = f ]_vars

\* a value was typed over an applied one and is not applied yet
C13_Witness ==
  /\ route = "whaleBets" /\ fOp = [op |-> "type", field |-> "minWhales"]
  /\ pendingInput["minWhales"] = "10" /\ searchParams["minWhales"] = "5"

\* ============================================================== journal
\* SignalDetailSheet for one selected signal; the sheet stays mounted while
\* it is closed (SignalsPage renders it with open={modalOpen}).
Unknown == [unknown |-> TRUE]     \* the backend's entry before the signal is first opened
NoEntry == [null |-> TRUE]        \* null where an ApiJournalEntry is expected
JournalErrors == {"API error: 500", "Failed to fetch"}   \* error.message of a failed call
Entry(t) == [thesis |-> t]                  \* an ApiJournalEntry; thesis: string | null

\* entry.thesis || ''
ThesisOrEmpty(e) == IF e.thesis = NULL THEN "" ELSE e.thesis

\* isLoading of the ['journal', id] query: fetching with no data yet
isCheckingJournal == existingJournal = NoData /\ checkInflight # "none"

\* create requests in flight
CreatesInFlight == Len(createCur) + Len(createOld)

\* an add control that does not wait for the check (candidate fault)
AddButtonShown_WhileChecking ==
  jOpen /\ journalMode = "hidden" /\ journalEntry = NoEntry

\* the "Add to Journal" button is rendered
AddButtonShown ==
  jOpen /\ journalMode = "hidden" /\ ~isCheckingJournal /\ journalEntry = NoEntry

\* the error card (message and Retry button) is rendered
ErrorCardShown == jOpen /\ journalMode = "form" /\ journalError # NULL

\* Retry: disabled={createJournalMutation.isPending}
RetryEnabled == ErrorCardShown /\ createCur = <<>>

\* the entry card is rendered
EntryShown == jOpen /\ journalMode = "display" /\ journalEntry # NoEntry

\* the notes editor is rendered
EditorShown == EntryShown /\ notesExpanded

\* Save: disabled={isPending || journalNotes === (journalEntry.thesis || '')}
SaveEnabled ==
  EditorShown /\ updInflight = <<>> /\ journalNotes # ThesisOrEmpty(journalEntry)

\* the refresh button of the collapsed view: disabled={refreshMutation.isPending}
RefreshEnabled == EntryShown /\ ~notesExpanded /\ ~refInflight

\* useEffect([existingJournal, isCheckingJournal, open]): the state it leaves
\* for data d, checking flag c and open flag o
ExistingJournalEffect(d, c, o) ==
  IF d # NoData /\ d # NoEntry
  THEN /\ journalEntry' = d
       /\ journalNotes' = ThesisOrEmpty(d)
       /\ journalMode' = "display"
  ELSE IF ~c /\ o
  THEN /\ journalMode' = "hidden"
       /\ journalEntry' = NoEntry
       /\ journalNotes' = ""
  ELSE UNCHANGED <<journalMode, journalEntry, journalNotes>>

\* handleSignalClick: setSelectedSignal(signal); setModalOpen(true). The query
\* becomes enabled and fetches when it has no data or its data is stale; the
\* effect on [.., open] runs
OpenSheet ==
  /\ ~jOpen
  /\ jOpen' = TRUE
  /\ IF srvEntry = Unknown THEN srvEntry' \in {NoEntry, Entry(NULL), Entry("A")} ELSE srvEntry' = srvEntry
  /\ \E stale \in BOOLEAN :
       checkInflight' = IF checkInflight = "none" /\ (existingJournal = NoData \/ stale)
                        THEN "open" ELSE checkInflight
  /\ ExistingJournalEffect(existingJournal,
                           existingJournal = NoData /\ checkInflight' # "none", TRUE)
  /\ jLast' = [op |-> "open", msg |-> "", toast |-> ""]
  /\ UNCHANGED <<journalError, notesExpanded, existingJournal, createCur,
                 createOld, updInflight, refInflight>>

\* onOpenChange(false): both effects run, the reset effect last
CloseSheet ==
  /\ jOpen
  /\ jOpen' = FALSE
  /\ journalMode' = "hidden"
  /\ journalEntry' = NoEntry
  /\ journalNotes' = ""
  /\ journalError' = NULL
  /\ notesExpanded' = FALSE
  /\ jLast' = [op |-> "close", msg |-> "", toast |-> ""]
  /\ UNCHANGED <<existingJournal, checkInflight, createCur, createOld,
                 updInflight, refInflight, srvEntry>>

\* the existence check answers: the entry, or null when getSignalJournal
\* throws (not found or any failure). The effect runs when the data changed
CheckResolve ==
  /\ checkInflight # "none"
  /\ checkInflight' = "none"
  /\ \E d \in {srvEntry, NoEntry} :
       /\ existingJournal' = d
       /\ IF d # existingJournal
          THEN ExistingJournalEffect(d, FALSE, jOpen)
          ELSE UNCHANGED <<journalMode, journalEntry, journalNotes>>
       /\ jLast' = [op |-> IF d = NoEntry THEN "checkNull" ELSE "checkEntry", msg |-> "", toast |-> ""]
  /\ UNCHANGED <<jOpen, journalError, notesExpanded, createCur, createOld,
                 updInflight, refInflight, srvEntry>>

\* createJournalMutation.mutate(): the observer follows the new mutation, a
\* pending earlier one stays in flight
CreateMutate ==
  /\ CreatesInFlight < MaxCreates
  /\ createCur' = <<IF journalNotes = "" THEN NULL ELSE journalNotes>>
  /\ createOld' = createOld \o createCur

\* handleJournalClick (the "Add to Journal" button)
handleJournalClick ==
  /\ AddButtonShown
  /\ journalMode' = "loading"
  /\ journalError' = NULL
  /\ CreateMutate
  /\ jLast' = [op |-> "add", msg |-> "", toast |-> ""]
  /\ UNCHANGED <<jOpen, journalEntry, journalNotes, notesExpanded, existingJournal,
                 checkInflight, updInflight, refInflight, srvEntry>>

\* the Retry button of the error card
RetryCreate ==
  /\ RetryEnabled
  /\ journalError' = NULL
  /\ journalMode' = "loading"
  /\ CreateMutate
  /\ jLast' = [op |-> "retry", msg |-> "", toast |-> ""]
  /\ UNCHANGED <<jOpen, journalEntry, journalNotes, notesExpanded, existingJournal,
                 checkInflight, updInflight, refInflight, srvEntry>>

\* a create request leaves the requests in flight: the current one (cur) or
\* the i-th superseded one
CreateSettled(cur, i) ==
  IF cur THEN createCur' = <<>> /\ createOld' = createOld
  ELSE /\ createCur' = createCur
       /\ createOld' = [j \in 1..(Len(createOld) - 1) |->
                          IF j < i THEN createOld[j] ELSE createOld[j + 1]]

\* createJournalMutation onSuccess: the backend had no entry and creates
\* one with the notes sent (it keeps one entry per signal)
CreateJournalOk ==
  /\ \E cur \in BOOLEAN : \E i \in 1..Len(IF cur THEN createCur ELSE createOld) :
       LET notes == IF cur THEN createCur[i] ELSE createOld[i]
           data  == Entry(notes)
       IN /\ srvEntry = NoEntry
          /\ CreateSettled(cur, i)
          /\ srvEntry' = data
          /\ journalEntry' = data
  /\ journalMode' = "display"
  /\ journalError' = NULL
  /\ checkInflight' = IF jOpen THEN "invalidate" ELSE checkInflight   \* invalidateQueries
  /\ jLast' = [op |-> "createOk", msg |-> "", toast |-> ""]
  /\ UNCHANGED <<jOpen, journalNotes, notesExpanded, existingJournal,
                 updInflight, refInflight>>

\* an onError that stores a fixed text instead of error.message (candidate fault)
CreateJournalFail_FixedText ==
  /\ \E cur \in BOOLEAN : \E i \in 1..Len(IF cur THEN createCur ELSE createOld) :
       CreateSettled(cur, i)
  /\ \E m \in JournalErrors :
       /\ journalError' = "Something went wrong"
       /\ jLast' = [op |-> "createFail", msg |-> m, toast |-> ""]
  /\ journalMode' = "form"
  /\ UNCHANGED <<jOpen, journalEntry, journalNotes, notesExpanded, existingJournal,
                 checkInflight, updInflight, refInflight, srvEntry>>

\* createJournalMutation onError
CreateJournalFail ==
  /\ \E cur \in BOOLEAN : \E i \in 1..Len(IF cur THEN createCur ELSE createOld) :
       CreateSettled(cur, i)
  /\ \E m \in JournalErrors :
       /\ journalError' = m
       /\ jLast' = [op |-> "createFail", msg |-> m, toast |-> ""]
  /\ journalMode' = "form"
  /\ UNCHANGED <<jOpen, journalEntry, journalNotes, notesExpanded, existingJournal,
                 checkInflight, updInflight, refInflight, srvEntry>>

\* the Edit / Add Note button: setNotesExpanded(true)
EditNotes ==
  /\ EntryShown /\ ~notesExpanded
  /\ notesExpanded' = TRUE
  /\ jLast' = [op |-> "edit", msg |-> "", toast |-> ""]
  /\ UNCHANGED <<jOpen, journalMode, journalEntry, journalNotes, journalError,
                 existingJournal, checkInflight, createCur, createOld,
                 updInflight, refInflight, srvEntry>>

\* the textarea's onChange: setJournalNotes(e.target.value)
TypeNotes ==
  /\ EditorShown
  /\ \E v \in {"", "A", "B"} : v # journalNotes /\ journalNotes' = v
  /\ jLast' = [op |-> "typeNotes", msg |-> "", toast |-> ""]
  /\ UNCHANGED <<jOpen, journalMode, journalEntry, journalError, notesExpanded,
                 existingJournal, checkInflight, createCur, createOld,
                 updInflight, refInflight, srvEntry>>

\* a Save button that is never disabled (candidate fault)
SaveNotes_AlwaysEnabled ==
  /\ EditorShown
  /\ updInflight' = <<journalNotes>>
  /\ jLast' = [op |-> "save", msg |-> "", toast |-> ""]
  /\ UNCHANGED <<jOpen, journalMode, journalEntry, journalNotes, journalError,
                 notesExpanded, existingJournal, checkInflight, createCur,
                 createOld, refInflight, srvEntry>>

\* the Save button: updateNotesMutation.mutate(), disabled while pending or
\* while the buffer equals the stored thesis
SaveNotes ==
  /\ SaveEnabled
  /\ updInflight' = <<journalNotes>>
  /\ jLast' = [op |-> "save", msg |-> "", toast |-> ""]
  /\ UNCHANGED <<jOpen, journalMode, journalEntry, journalNotes, journalError,
                 notesExpanded, existingJournal, checkInflight, createCur,
                 createOld, refInflight, srvEntry>>

\* the Cancel button: setJournalNotes(journalEntry.thesis || ''); setNotesExpanded(false)
CancelNotes ==
  /\ EditorShown
  /\ journalNotes' = ThesisOrEmpty(journalEntry)
  /\ notesExpanded' = FALSE
  /\ jLast' = [op |-> "cancel", msg |-> "", toast |-> ""]
  /\ UNCHANGED <<jOpen, journalMode, journalEntry, journalError, existingJournal,
                 checkInflight, createCur, createOld, updInflight, refInflight,
                 srvEntry>>

\* updateNotesMutation onSuccess: the backend stores the notes sent
UpdateNotesOk ==
  /\ updInflight # <<>> /\ srvEntry \notin {Unknown, NoEntry}
  /\ updInflight' = <<>>
  /\ srvEntry' = Entry(updInflight[1])
  /\ journalEntry' = srvEntry'
  /\ journalError' = NULL
  /\ notesExpanded' = FALSE
  /\ jLast' = [op |-> "updateOk", msg |-> "", toast |-> "Note saved"]
  /\ UNCHANGED <<jOpen, journalMode, journalNotes, existingJournal, checkInflight,
                 createCur, createOld, refInflight>>

\* updateNotesMutation onError: the message is stored, a fixed toast is shown
UpdateNotesFail ==
  /\ updInflight # <<>>
  /\ updInflight' = <<>>
  /\ \E m \in JournalErrors :
       /\ journalError' = m
       /\ jLast' = [op |-> "updateFail", msg |-> m, toast |-> "Failed to save note"]
  /\ UNCHANGED <<jOpen, journalMode, journalEntry, journalNotes, notesExpanded,
                 existingJournal, checkInflight, createCur, createOld,
                 refInflight, srvEntry>>

\* the refresh button: refreshMutation.mutate()
RefreshJournal ==
  /\ RefreshEnabled
  /\ refInflight' = TRUE
  /\ jLast' = [op |-> "refresh", msg |-> "", toast |-> ""]
  /\ UNCHANGED <<jOpen, journalMode, journalEntry, journalNotes, journalError,
                 notesExpanded, existingJournal, checkInflight, createCur,
                 createOld, updInflight, srvEntry>>

\* refreshMutation onSuccess
RefreshJournalOk ==
  /\ refInflight /\ srvEntry \notin {Unknown, NoEntry}
  /\ refInflight' = FALSE
  /\ journalEntry' = srvEntry
  /\ journalNotes' = ThesisOrEmpty(srvEntry)
  /\ journalError' = NULL
  /\ jLast' = [op |-> "refreshOk", msg |-> "", toast |-> ""]
  /\ UNCHANGED <<jOpen, journalMode, notesExpanded, existingJournal, checkInflight,
                 createCur, createOld, updInflight, srvEntry>>

\* refreshMutation onError: the message is stored, nothing else happens
RefreshJournalFail ==
  /\ refInflight
  /\ refInflight' = FALSE
  /\ \E m \in JournalErrors :
       /\ journalError' = m
       /\ jLast' = [op |-> "refreshFail", msg |-> m, toast |-> ""]
  /\ UNCHANGED <<jOpen, journalMode, journalEntry, journalNotes, notesExpanded,
                 existingJournal, checkInflight, createCur, createOld,
                 updInflight, srvEntry>>

JournalNext ==
  /\ \/ OpenSheet \/ CloseSheet \/ CheckResolve
     \/ handleJournalClick \/ RetryCreate \/ CreateJournalOk \/ CreateJournalFail
     \/ EditNotes \/ TypeNotes \/ SaveNotes \/ CancelNotes
     \/ UpdateNotesOk \/ UpdateNotesFail
     \/ RefreshJournal \/ RefreshJournalOk \/ RefreshJournalFail
  /\ UNCHANGED <<authVars, queryVars, filterVars, consensusVars, derived>>

SpecJournal == Init /\ [][JournalNext]_vars

\* ============================================================ journal claims

\* C14: from hidden, add-to-journal moves the journal to loading and issues
\* one create request; a failure that arrives while the view is open makes
\* the state form with exactly the failure's message displayed next to the
\* retry control; retry clears the error, re-enters loading and issues
\* another create request.
C14_CreateFailureShowsErrorAndRetry ==
  [][ /\ jLast'.op = "add" =>
           /\ journalMode = "hidden" /\ journalMode' = "loading"
           /\ CreatesInFlight' = CreatesInFlight + 1
      /\ (jLast'.op = "createFail" /\ jOpen) =>
           /\ journalMode' = "form"
           /\ journalError' = jLast'.msg /\ jLast'.msg \in JournalErrors
           /\ ErrorCardShown'
      /\ jLast'.op = "retry" =>
           /\ journalError' = NULL /\ journalMode' = "loading"
           /\ CreatesInFlight' = CreatesInFlight + 1 ]_vars

\* the retry was pressed after a failed create
C14_Witness ==
  jOpen /\ jLast.op = "retry" /\ journalMode = "loading" /\ createCur # <<>>

\* the user can see the last failure: the error card, or a toast
C15_ErrorVisible == ErrorCardShown \/ jLast.toast # ""

\* C15: a refresh that fails while the entry is displayed leaves the journal
\* in display with the stored entry unchanged, and its error is visible to
\* the user in that state.
C15_RefreshFailureIsShown ==
  [][ (jLast'.op = "refreshFail" /\ jOpen /\ journalMode = "display") =>
        /\ journalMode' = "display"
        /\ journalEntry' = journalEntry
        /\ C15_ErrorVisible' ]_vars

\* C16: whenever the detail view is closed the journal is in its reset
\* state: hidden, no entry, empty notes buffer, no error, editor collapsed.
C16_ClosedMeansReset ==
  ~jOpen => /\ journalMode = "hidden"
            /\ journalEntry = NoEntry
            /\ journalNotes = ""
            /\ journalError = NULL
            /\ ~notesExpanded

\* C17: when the journal enters display after a successful create, and
\* whenever the note editor is opened from the collapsed view, the notes
\* buffer equals the entry's stored thesis (empty when there is none).
C17_BufferSeededFromThesis ==
  [][ (jOpen /\ jLast'.op \in {"createOk", "edit"}) =>
        journalNotes' = ThesisOrEmpty(journalEntry') ]_vars

\* C18: Save issues an update request only when the buffer differs from the
\* stored thesis and no update is pending, and nothing else issues one;
\* Cancel sets the buffer to the stored thesis, collapses the editor and
\* issues no request.
C18_SaveOnlyWhenChanged ==
  [][ /\ jLast'.op = "save" =>
           /\ journalNotes # ThesisOrEmpty(journalEntry)
           /\ updInflight = <<>>
           /\ updInflight' = <<journalNotes>>
      /\ (updInflight' # updInflight /\ updInflight' # <<>>) => jLast'.op = "save"
      /\ jLast'.op = "cancel" =>
           /\ journalNotes' = ThesisOrEmpty(journalEntry)
           /\ ~notesExpanded'
           /\ UNCHANGED <<checkInflight, createCur, createOld, updInflight,
                          refInflight>> ]_vars

\* an edited note was saved, and an edit was cancelled
C18_Witness ==
  /\ jOpen /\ jLast.op = "cancel" /\ journalEntry = Entry("B")
  /\ journalNotes = "B" /\ ~notesExpanded

Base == 1024

\* a * k + carry, for 0 <= k, carry < Base
RECURSIVE BigMulAdd(_, _, _)
BigMulAdd(a, k, carry) ==
  IF a = <<>> THEN <<carry>>
  ELSE LET n == Len(a)
           v == a[n] * k + carry
       IN BigMulAdd(SubSeq(a, 1, n - 1), k, v \div Base) \o <<v % Base>>

\* quotient and remainder of a by k, for 0 < k <= Base
RECURSIVE BigDivMod(_, _)
BigDivMod(a, k) ==
  IF a = <<>> THEN [quot |-> <<>>, rem |-> 0]
  ELSE LET n == Len(a)
           h == BigDivMod(SubSeq(a, 1, n - 1), k)
           v == h.rem * Base + a[n]
       IN [quot |-> h.quot \o <<v \div k>>, rem |-> v % k]

\* floor(a / 2^e)
BigShiftRight(a, e) ==
  BigDivMod(SubSeq(a, 1, Len(a) - (e \div 10)), 2 ^ (e % 10)).quot

\* the value of a large natural that is small
RECURSIVE BigToNat(_)
BigToNat(a) ==
  IF a = <<>> THEN 0 ELSE BigToNat(SubSeq(a, 1, Len(a) - 1)) * Base + a[Len(a)]

\* round to nearest, ties to even: q rounded up when the remainder dropped is
\* above half, or is half and q is odd
RoundedToEven(q, above, half) ==
  IF above \/ (half /\ q[Len(q)] % 2 = 1) THEN BigMulAdd(q, 1, 1) ELSE q

\* the number of zero bits after the binary point of p / t before its first
\* one bit, for 0 < p < t
RECURSIVE LeadingZeros(_, _)
LeadingZeros(p, t) == IF 2 * p >= t THEN 0 ELSE 1 + LeadingZeros(2 * p, t)

\* the double p / t for 0 < p < t: its value is mant / 2^scale
DoubleQuotient(p, t) ==
  LET s   == LeadingZeros(p, t)
      top == p * 2 ^ (s + 3)                   \* p * 2^(s + 53) = top * Base^5
      d   == BigDivMod(<<top \div Base, top % Base, 0, 0, 0, 0, 0>>, t)
  IN [mant  |-> RoundedToEven(d.quot, 2 * d.rem > t, 2 * d.rem = t),
      scale |-> s + 53]

\* the double x * 100 for a double x with 2^-10 <= x < 1
DoubleTimes100(x) ==
  LET prod == BigMulAdd(x.mant, 100, 0)        \* exact, 59 or 60 bits
      drop == IF BigToNat(BigShiftRight(prod, 59)) = 0 THEN 6 ELSE 7
      d    == BigDivMod(prod, 2 ^ drop)
      half == 2 ^ (drop - 1)
  IN [mant  |-> RoundedToEven(d.quot, d.rem > half, d.rem = half),
      scale |-> x.scale - drop]

\* Math.round(x) for a double 0 < x <= 100: floor(x + 1/2)
MathRound(x) == (BigToNat(BigShiftRight(x.mant, x.scale - 1)) + 1) \div 2

\* Math.round((pickVolume / totalVolume) * 100) for 0 <= pickVolume <= totalVolume
RoundedPercent(pickVolume, totalVolume) ==
  IF pickVolume = 0 THEN 0
  ELSE IF pickVolume = totalVolume THEN 100
  ELSE MathRound(DoubleTimes100(DoubleQuotient(pickVolume, totalVolume)))

Outcomes == {"Draw", "Over", "Under"}               \* outcome of a whale position
Volumes == {0, 17, 23, 100, 300}              \* current_value of a whale position
NoSignal == [none |-> TRUE]                   \* signal === null

\* positions.reduce((sum, p) => sum + p.current_value, 0)
RECURSIVE SumValues(_)
SumValues(positions) ==
  IF positions = <<>> THEN 0
  ELSE SumValues(SubSeq(positions, 1, Len(positions) - 1))
         + positions[Len(positions)].current_value

\* positionsByOutcome: the reduce appends each position to acc[pos.outcome];
\* a function from the outcomes that occur to their positions in input order
positionsByOutcome(positions) ==
  [k \in {positions[i].outcome : i \in 1..Len(positions)} |->
     SelectSeq(positions, LAMBDA q : q.outcome = k)]

\* getSideTotals(positions)
getSideTotals(positions) ==
  [count |-> Len(positions), volume |-> SumValues(positions)]

\* an ordering that forgets the picked side (candidate fault)
outcomes_Alphabetical(positions, pickSide) ==
  LET localeCompare(a, b) ==
        LET rank(s) == CASE s = "Draw" -> 1 [] s = "Over" -> 2 [] OTHER -> 3
        IN IF rank(a) < rank(b) THEN -1 ELSE IF rank(a) > rank(b) THEN 1 ELSE 0
      RECURSIVE keys(_)
      keys(n) ==
        IF n = 0 THEN <<>>
        ELSE LET before == keys(n - 1)
             IN IF \E i \in 1..Len(before) : before[i] = positions[n].outcome
                THEN before ELSE Append(before, positions[n].outcome)
      RECURSIVE insert(_, _)
      insert(x, sorted) ==
        IF sorted = <<>> THEN <<x>>
        ELSE IF localeCompare(x, sorted[1]) < 0 THEN <<x>> \o sorted
        ELSE <<sorted[1]>> \o insert(x, Tail(sorted))
      RECURSIVE sort(_)
      sort(s) == IF s = <<>> THEN <<>> ELSE insert(s[Len(s)], sort(SubSeq(s, 1, Len(s) - 1)))
  IN sort(keys(Len(positions)))

\* outcomes: Object.keys(positionsByOutcome).sort(...). The keys come in
\* insertion order; the comparator puts pickSide first and compares the
\* others with localeCompare; the sort is an insertion sort with it
outcomes(positions, pickSide) ==
  LET localeCompare(a, b) ==
        LET rank(s) == CASE s = "Draw" -> 1 [] s = "Over" -> 2 [] OTHER -> 3
        IN IF rank(a) < rank(b) THEN -1 ELSE IF rank(a) > rank(b) THEN 1 ELSE 0
      compare(a, b) ==
        IF a = pickSide THEN -1 ELSE IF b = pickSide THEN 1 ELSE localeCompare(a, b)
      RECURSIVE keys(_)
      keys(n) ==
        IF n = 0 THEN <<>>
        ELSE LET before == keys(n - 1)
             IN IF \E i \in 1..Len(before) : before[i] = positions[n].outcome
                THEN before ELSE Append(before, positions[n].outcome)
      RECURSIVE insert(_, _)
      insert(x, sorted) ==
        IF sorted = <<>> THEN <<x>>
        ELSE IF compare(x, sorted[1]) < 0 THEN <<x>> \o sorted
        ELSE <<sorted[1]>> \o insert(x, Tail(sorted))
      RECURSIVE sort(_)
      sort(s) == IF s = <<>> THEN <<>> ELSE insert(s[Len(s)], sort(SubSeq(s, 1, Len(s) - 1)))
  IN sort(keys(Len(positions)))

\* outcomes.map(...): one card per outcome with its getSideTotals
WhaleGroups(positions, pickSide) ==
  LET o == outcomes(positions, pickSide)
  IN [i \in 1..Len(o) |->
        [outcome |-> o[i],
         count   |-> getSideTotals(positionsByOutcome(positions)[o[i]]).count,
         volume  |-> getSideTotals(positionsByOutcome(positions)[o[i]]).volume]]

\* actualConsensus: <<>> for null, else <<percent>>
actualConsensus(positions, side) ==
  IF Len(positions) = 0 THEN <<>>
  ELSE LET pickVolume  == SumValues(SelectSeq(positions, LAMBDA q : q.outcome = side))
           totalVolume == SumValues(positions)
       IN IF totalVolume = 0 THEN <<>>
          ELSE <<RoundedPercent(pickVolume, totalVolume)>>

\* displayConsensus = actualConsensus ?? signal.signal.consensusPercent
displayConsensus(positions, signal) ==
  IF actualConsensus(positions, signal.side) = <<>> THEN signal.consensusPercent
  ELSE actualConsensus(positions, signal.side)[1]

\* a signal card is clicked: the sheet shows that signal, whose positions
\* are not loaded yet
SelectSignal ==
  /\ \E s \in [side : Outcomes, consensusPercent : {50, 75}] :
       /\ s # sheetSignal
       /\ sheetSignal' = s
       /\ shownConsensus' = <<displayConsensus(<<>>, s)>>
       /\ shownGroups' = WhaleGroups(<<>>, s.side)
  /\ whalePositions' = <<>>
  /\ UNCHANGED clipboard

\* the ['whale-positions', id] query of the selected signal answers; the
\* sheet renders again
PositionsResolve ==
  /\ sheetSignal # NoSignal
  /\ whalePositions = <<>>
  /\ \E l \in UNION {[1..n -> [outcome : Outcomes, current_value : Volumes]] :
                      n \in 0..MaxPositions} :
       /\ whalePositions' = l
       /\ shownConsensus' = <<displayConsensus(l, sheetSignal)>>
       /\ shownGroups' = WhaleGroups(l, sheetSignal.side)
  /\ UNCHANGED <<sheetSignal, clipboard>>

\* consensusChanged of SignalDetailModal:
\* actualConsensus !== null && actualConsensus !== signal.signal.consensusPercent
consensusChanged(positions, signal) ==
  /\ actualConsensus(positions, signal.side) # <<>>
  /\ actualConsensus(positions, signal.side)[1] # signal.consensusPercent

\* the consensus row carries the "*" mark: SignalDetailSheet renders
\* {displayConsensus}% alone, SignalDetailModal adds the mark when
\* consensusChanged
ConsensusMarked(view) ==
  /\ sheetSignal # NoSignal
  /\ view = "modal"
  /\ consensusChanged(whalePositions, sheetSignal)

\* SignalDetailSheet.handleCopy: the line is `- Consensus: ${displayConsensus}%`
handleCopy ==
  /\ sheetSignal # NoSignal
  /\ clipboard' = <<[view  |-> "sheet",
                     value |-> IF actualConsensus(whalePositions, sheetSignal.side) = <<>>
                               THEN "stored" ELSE "live",
                     mark  |-> FALSE]>>
  /\ UNCHANGED <<sheetSignal, whalePositions, shownConsensus, shownGroups>>

\* SignalDetailModal.handleCopy, formatSignalAsMarkdown: the line is
\* `| Consensus | ${signal.signal.consensusPercent}% |`
formatSignalAsMarkdown ==
  /\ sheetSignal # NoSignal
  /\ clipboard' = <<[view |-> "modal", value |-> "stored", mark |-> FALSE]>>
  /\ UNCHANGED <<sheetSignal, whalePositions, shownConsensus, shownGroups>>

ConsensusNext ==
  /\ SelectSignal \/ PositionsResolve \/ handleCopy \/ formatSignalAsMarkdown
  /\ UNCHANGED <<authVars, queryVars, filterVars, journalVars, derived>>

SpecConsensus == Init /\ [][ConsensusNext]_vars

\* ======================================================= derived views
\* Values the pages compute from fetched data while rendering (useMemo and
\* plain functions). Each action draws the inputs, applies the function as
\* the code does and leaves inputs and result in `derived`; a behaviour
\* looks at one computation.

\* WhalePlaysPage: oppositeGroup = data.groups.find(...), null without a
\* selection, undefined when nothing is found
oppositeGroup(selectedGroup, groups) ==
  LET toLowerCase(s) == CASE s = "Over" -> "over" [] s = "Under" -> "under"
                          [] s = "Home" -> "home" [] OTHER -> s
      isOver  == toLowerCase(selectedGroup.direction) = "over"
      isUnder == toLowerCase(selectedGroup.direction) = "under"
      found(g) ==
        IF g.event_slug # selectedGroup.event_slug THEN FALSE
        ELSE IF g.bet_type # selectedGroup.bet_type THEN FALSE
        ELSE IF g.direction = selectedGroup.direction THEN FALSE
        ELSE IF isOver /\ toLowerCase(g.direction) = "under" THEN TRUE
        ELSE IF isUnder /\ toLowerCase(g.direction) = "over" THEN TRUE
        ELSE TRUE
      hits == {i \in 1..Len(groups) : found(groups[i])}
  IN IF hits = {} THEN <<>>
     ELSE <<groups[CHOOSE i \in hits : \A j \in hits : i <= j]>>

\* a group card is clicked while the fetched groups are `groups`
handleGroupClick ==
  /\ derived.fn = "none"
  /\ \E groups \in UNION {[1..n -> [event_slug : {"e1", "e2"},
                                     bet_type : {"totals", "spread"},
                                     direction : {"Over", "over", "Under", "Home"}]] :
                            n \in 0..MaxGroups} :
      \E i \in 1..Len(groups) :
        derived' = [fn |-> "oppositeGroup", selectedGroup |-> groups[i],
                    groups |-> groups, out |-> oppositeGroup(groups[i], groups)]

\* the raw signals of the backend: prices in cents (avg_entry 40 is 0.40),
\* current_price <<>> for null
ApiSignals ==
  [consensus_pct : {79, 80}, traders : {2, 3}, avg_entry : {0, 40, 50, 55, 60},
   current_price : {<<>>, <<0 - 10>>, <<0>>, <<40>>, <<50>>, <<60>>, <<100>>, <<120>>}]

\* a price gate that looks at the current price (candidate fault)
transformApiSignal_CeilingOnCurrent(apiSignal) ==
  LET entryPrice   == apiSignal.avg_entry                 \* avg_entry || 0
      currentPrice == IF apiSignal.current_price = <<>> THEN entryPrice
                      ELSE apiSignal.current_price[1]
      rrRatio      == IF currentPrice > 0 /\ currentPrice < 100
                      THEN <<100 - currentPrice, currentPrice>> ELSE <<0, 1>>
  IN [entryPrice       |-> entryPrice,
      currentPrice     |-> currentPrice,
      rrRatio          |-> rrRatio,
      consensusPass    |-> apiSignal.consensus_pct >= 80,
      traderCountPass  |-> apiSignal.traders >= 3,
      priceCeilingPass |-> currentPrice <= 55,
      rrRatioPass      |-> rrRatio[1] >= rrRatio[2],      \* rrRatio >= 1.0
      noHedging        |-> TRUE,
      noEliteConflict  |-> TRUE]

\* a ratio without the upper price bound (candidate fault)
transformApiSignal_NoUpperBound(apiSignal) ==
  LET entryPrice   == apiSignal.avg_entry                 \* avg_entry || 0
      currentPrice == IF apiSignal.current_price = <<>> THEN entryPrice
                      ELSE apiSignal.current_price[1]
      rrRatio      == IF currentPrice > 0
                      THEN <<100 - currentPrice, currentPrice>> ELSE <<0, 1>>
  IN [entryPrice       |-> entryPrice,
      currentPrice     |-> currentPrice,
      rrRatio          |-> rrRatio,
      consensusPass    |-> apiSignal.consensus_pct >= 80,
      traderCountPass  |-> apiSignal.traders >= 3,
      priceCeilingPass |-> entryPrice <= 55,
      rrRatioPass      |-> rrRatio[1] >= rrRatio[2],      \* rrRatio >= 1.0
      noHedging        |-> TRUE,
      noEliteConflict  |-> TRUE]

\* transformApiSignal: the prices, the risk/reward ratio and the checklist of
\* the Signal it returns. rrRatio is the fraction <<numerator, denominator>>
\* of (1 - currentPrice) / currentPrice, <<0, 1>> for 0
transformApiSignal(apiSignal) ==
  LET entryPrice   == apiSignal.avg_entry                 \* avg_entry || 0
      currentPrice == IF apiSignal.current_price = <<>> THEN entryPrice
                      ELSE apiSignal.current_price[1]
      rrRatio      == IF currentPrice > 0 /\ currentPrice < 100
                      THEN <<100 - currentPrice, currentPrice>> ELSE <<0, 1>>
  IN [entryPrice       |-> entryPrice,
      currentPrice     |-> currentPrice,
      rrRatio          |-> rrRatio,
      consensusPass    |-> apiSignal.consensus_pct >= 80,
      traderCountPass  |-> apiSignal.traders >= 3,
      priceCeilingPass |-> entryPrice <= 55,
      rrRatioPass      |-> rrRatio[1] >= rrRatio[2],      \* rrRatio >= 1.0
      noHedging        |-> TRUE,
      noEliteConflict  |-> TRUE]

\* a fetched signal is transformed for the list
TransformSignal ==
  /\ derived.fn = "none"
  /\ \E a \in ApiSignals :
       derived' = [fn |-> "transformApiSignal", apiSignal |-> a,
                   out |-> transformApiSignal(a)]

\* Array.prototype.sort with the comparator cmp: a stable sort, here an
\* insertion sort that moves an element only before elements it is less than
ArraySort(list, cmp(_, _)) ==
  LET RECURSIVE insert(_, _)
      insert(x, sorted) ==
        IF sorted = <<>> THEN <<x>>
        ELSE IF cmp(x, sorted[Len(sorted)]) < 0
             THEN Append(insert(x, SubSeq(sorted, 1, Len(sorted) - 1)),
                         sorted[Len(sorted)])
             ELSE Append(sorted, x)
      RECURSIVE sort(_)
      sort(n) == IF n = 0 THEN <<>> ELSE insert(list[n], sort(n - 1))
  IN sort(Len(list))

\* a sort that orders game times latest first (candidate fault)
filteredAndSortedSignals_Latest(signals, sportFilter, sortOption) ==
  LET result == IF sportFilter # "All"
                THEN SelectSeq(signals, LAMBDA s : s.sport = sportFilter)
                ELSE signals
      compare(a, b) == CASE sortOption = "created"  -> b.firstSeenAt - a.firstSeenAt
                         [] sortOption = "gameTime" -> b.gameTime - a.gameTime
                         [] OTHER -> 0
  IN [signals |-> signals, out |-> ArraySort(result, compare)]

\* SignalsPage.filteredAndSortedSignals; `signals` is the array after the
\* call, `out` the list shown
filteredAndSortedSignals(signals, sportFilter, sortOption) ==
  LET result == IF sportFilter # "All"
                THEN SelectSeq(signals, LAMBDA s : s.sport = sportFilter)
                ELSE signals
      compare(a, b) == CASE sortOption = "created"  -> b.firstSeenAt - a.firstSeenAt
                         [] sortOption = "gameTime" -> a.gameTime - b.gameTime
                         [] OTHER -> 0
  IN [signals |-> signals, out |-> ArraySort(result, compare)]

\* WhalePlaysPage.sortedGroups: sorted = [...groups], then sorted.sort(...);
\* `groups` is the array after the call, `out` the list shown
sortedGroups(groups, sortBy) ==
  LET compare(a, b) ==
        CASE sortBy = "consensus" -> b.combined_consensus_pct - a.combined_consensus_pct
          [] sortBy = "whales"    -> b.unique_whale_count - a.unique_whale_count
          [] sortBy = "volume"    -> b.total_volume - a.total_volume
          [] OTHER -> 0
  IN [groups |-> groups, out |-> ArraySort(groups, compare)]

\* the Signals page renders fetched signals; with a sport filter the request
\* carried that sport and the signals fetched are of that sport
SortSignals ==
  /\ derived.fn = "none"
  /\ \E sportFilter \in {"All", "NBA"}, sortOption \in {"created", "gameTime"} :
       \E signals \in UNION {[1..n -> [sport : IF sportFilter = "All" THEN {"NBA", "NFL"}
                                                ELSE {sportFilter},
                                        firstSeenAt : {1, 2}, gameTime : {1, 2}]] :
                               n \in 0..MaxItems} :
         LET r == filteredAndSortedSignals(signals, sportFilter, sortOption)
         IN derived' = [fn |-> "sortedSignals", sortOption |-> sortOption,
                        fetched |-> signals, after |-> r.signals, out |-> r.out]

\* the Whale Bets page renders fetched groups
SortGroups ==
  /\ derived.fn = "none"
  /\ \E sortBy \in {"consensus", "whales", "volume"} :
       \E groups \in UNION {[1..n -> [combined_consensus_pct : {60, 80},
                                       unique_whale_count : {3, 5},
                                       total_volume : {100, 300}]] :
                              n \in 0..MaxItems} :
         LET r == sortedGroups(groups, sortBy)
         IN derived' = [fn |-> "sortedGroups", sortOption |-> sortBy,
                        fetched |-> groups, after |-> r.groups, out |-> r.out]

\* page buttons without the clamp at the last pages (candidate fault)
pageButtons_NoClampAtEnd(page, totalPages) ==
  IF totalPages > 1
  THEN [k \in 1..(IF totalPages < 5 THEN totalPages ELSE 5) |->
          LET i == k - 1
          IN IF totalPages <= 5 THEN i + 1
             ELSE IF page <= 3 THEN i + 1
             ELSE page - 2 + i]
  ELSE <<>>

\* WhalePlaysPage pagination: the numbers of the page buttons, in order;
\* {totalPages > 1 && ...} renders none for a single page
pageButtons(page, totalPages) ==
  IF totalPages > 1
  THEN [k \in 1..(IF totalPages < 5 THEN totalPages ELSE 5) |->
          LET i == k - 1
          IN IF totalPages <= 5 THEN i + 1
             ELSE IF page <= 3 THEN i + 1
             ELSE IF page >= totalPages - 2 THEN totalPages - 4 + i
             ELSE page - 2 + i]
  ELSE <<>>

\* the Whale Plays page renders page `page` of data.total_pages
RenderPagination ==
  /\ derived.fn = "none"
  /\ \E totalPages \in 1..MaxTotalPages : \E page \in 1..totalPages :
       derived' = [fn |-> "pageButtons", page |-> page, totalPages |-> totalPages,
                   out |-> pageButtons(page, totalPages)]

DerivedNext ==
  /\ \/ handleGroupClick \/ TransformSignal \/ SortSignals \/ SortGroups
     \/ RenderPagination
  /\ UNCHANGED <<authVars, queryVars, filterVars, journalVars, consensusVars>>

SpecDerived == Init /\ [][DerivedNext]_vars

\* ========================================================= consensus claims

\* C20: when positions are loaded, not empty and their total current_value
\* is not zero, the consensus shown is 100 * pick-side volume / total volume
\* rounded to the nearest integer (a half rounds up), whatever the stored
\* consensusPercent is; otherwise the stored consensusPercent is shown.
C20_ShownIsRoundedShare ==
  sheetSignal # NoSignal =>
    LET pickVolume  == SumValues(SelectSeq(whalePositions,
                                           LAMBDA q : q.outcome = sheetSignal.side))
        totalVolume == SumValues(whalePositions)
    IN shownConsensus =
         IF Len(whalePositions) > 0 /\ totalVolume # 0
         THEN <<(200 * pickVolume + totalVolume) \div (2 * totalVolume)>>
         ELSE <<sheetSignal.consensusPercent>>

\* C21: whenever the live-derived consensus differs from the stored
\* consensusPercent, the detail view and the text produced for the clipboard
\* both mark the consensus value as live-derived; when the two are equal or
\* no live value exists, neither shows a mark.
C21_LiveConsensusIsMarked ==
  [][ clipboard' # clipboard =>
        /\ clipboard'[1].mark = consensusChanged(whalePositions, sheetSignal)
        /\ ConsensusMarked(clipboard'[1].view)
              = consensusChanged(whalePositions, sheetSignal) ]_vars

\* the positions of the list s with outcome k
C22_Group(s, k) == {i \in 1..Len(s) : s[i].outcome = k}

\* the sum of the volumes of the first n groups shown
RECURSIVE C22_VolumeSum(_)
C22_VolumeSum(n) ==
  IF n = 0 THEN 0 ELSE shownGroups[n].volume + C22_VolumeSum(n - 1)

\* the sum of current_value over the positions of s named by the set idx
RECURSIVE C22_Volume(_, _)
C22_Volume(s, idx) ==
  IF idx = {} THEN 0
  ELSE LET i == CHOOSE x \in idx : TRUE
       IN s[i].current_value + C22_Volume(s, idx \ {i})

C23_OppositeIsPreferred ==
  derived.fn = "oppositeGroup" =>
    LET sel == derived.selectedGroup
        gs  == derived.groups
        low(s) == CASE s = "Over" -> "over" [] s = "Under" -> "under"
                    [] s = "Home" -> "home" [] OTHER -> s
        candidates == {i \in 1..Len(gs) : /\ gs[i].event_slug = sel.event_slug
                                           /\ gs[i].bet_type = sel.bet_type
                                           /\ gs[i].direction # sel.direction}
        wanted == CASE low(sel.direction) = "over" -> "under"
                    [] low(sel.direction) = "under" -> "over"
                    [] OTHER -> ""
    IN /\ (derived.out = <<>>) = (candidates = {})
       /\ derived.out # <<>> => \E i \in candidates : derived.out[1] = gs[i]
       /\ (\E i \in candidates : low(gs[i].direction) = wanted)
            => low(derived.out[1].direction) = wanted

\* the checklist gates in which the signals transformed from a and b differ
C24_Flipped(a, b) ==
  {g \in {"consensusPass", "traderCountPass", "priceCeilingPass", "rrRatioPass",
          "noHedging", "noEliteConflict"} :
     transformApiSignal(a)[g] # transformApiSignal(b)[g]}

\* the raw signals that differ from a in the field f only
C24_Changed(a, f) ==
  {b \in ApiSignals : b[f] # a[f] /\ \A h \in DOMAIN a \ {f} : b[h] = a[h]}

\* C24 as claimed: each computed gate depends on its own input only
\* (consensus >= 80, traders >= 3, entry price <= 0.55, risk/reward >= 1.0)
\* and the two other gates are always true, so changing one raw input can
\* flip the gate of that input and no other gate.
C24_GatesAreIndependent ==
  derived.fn = "transformApiSignal" =>
    LET a == derived.apiSignal
    IN /\ derived.out.noHedging /\ derived.out.noEliteConflict
       /\ \A b \in C24_Changed(a, "consensus_pct") : C24_Flipped(a, b) \subseteq {"consensusPass"}
       /\ \A b \in C24_Changed(a, "traders") : C24_Flipped(a, b) \subseteq {"traderCountPass"}
       /\ \A b \in C24_Changed(a, "avg_entry") : C24_Flipped(a, b) \subseteq {"priceCeilingPass"}
       /\ \A b \in C24_Changed(a, "current_price") : C24_Flipped(a, b) \subseteq {"rrRatioPass"}

\* C24: the gates are consensus >= 80, traders >= 3, entry price <= 0.55 and
\* risk/reward >= 1.0 and the two other gates are always true; changing the
\* consensus, the trader count or the current price alone can flip only the
\* gate of that input; changing the entry price alone can flip only the
\* price gate when current_price is given, and the price gate and the
\* risk/reward gate when current_price is null.
C24_GatesFollowTheirInputs ==
  derived.fn = "transformApiSignal" =>
    LET a == derived.apiSignal
    IN /\ derived.out.noHedging /\ derived.out.noEliteConflict
       /\ derived.out.consensusPass = (a.consensus_pct >= 80)
       /\ derived.out.traderCountPass = (a.traders >= 3)
       /\ derived.out.priceCeilingPass = (a.avg_entry <= 55)
       /\ derived.out.rrRatioPass
            = (derived.out.rrRatio[1] >= derived.out.rrRatio[2])
       /\ \A b \in C24_Changed(a, "consensus_pct") : C24_Flipped(a, b) \subseteq {"consensusPass"}
       /\ \A b \in C24_Changed(a, "traders") : C24_Flipped(a, b) \subseteq {"traderCountPass"}
       /\ \A b \in C24_Changed(a, "current_price") : C24_Flipped(a, b) \subseteq {"rrRatioPass"}
       /\ \A b \in C24_Changed(a, "avg_entry") :
            C24_Flipped(a, b) \subseteq
              IF a.current_price = <<>> THEN {"priceCeilingPass", "rrRatioPass"}
              ELSE {"priceCeilingPass"}

\* entry price 0.50 with a current price: raising it to 0.60 flips the price
\* gate alone
C24_Witness ==
  /\ derived.fn = "transformApiSignal"
  /\ derived.apiSignal.avg_entry = 50 /\ derived.apiSignal.current_price = <<40>>
  /\ C24_Flipped(derived.apiSignal, [derived.apiSignal EXCEPT !.avg_entry = 60])
       = {"priceCeilingPass"}

\* C25: currentPrice is current_price when it is not null and the entry
\* price otherwise; rrRatio is (1 - currentPrice) / currentPrice when
\* 0 < currentPrice < 1 and 0 otherwise, and is never negative.
C25_RiskRewardFromCurrentPrice ==
  derived.fn = "transformApiSignal" =>
    LET a  == derived.apiSignal
        cp == derived.out.currentPrice
        rr == derived.out.rrRatio
    IN /\ derived.out.entryPrice = a.avg_entry
       /\ cp = IF a.current_price # <<>> THEN a.current_price[1] ELSE a.avg_entry
       /\ rr[2] > 0 /\ rr[1] >= 0
       /\ IF 0 < cp /\ cp < 100 THEN rr[1] * cp = (100 - cp) * rr[2]
          ELSE rr[1] = 0

\* avg_entry 0.40 with current_price null: currentPrice 0.40, rrRatio 1.5
C25_Witness ==
  /\ derived.fn = "transformApiSignal"
  /\ derived.apiSignal.avg_entry = 40 /\ derived.apiSignal.current_price = <<>>
  /\ derived.out.currentPrice = 40
  /\ 2 * derived.out.rrRatio[1] = 3 * derived.out.rrRatio[2]

\* the sort key of element e under the sort option o, larger keys first
C26_Key(o, e) ==
  CASE o = "created"   -> e.firstSeenAt
    [] o = "gameTime"  -> 0 - e.gameTime
    [] o = "consensus" -> e.combined_consensus_pct
    [] o = "whales"    -> e.unique_whale_count
    [] OTHER           -> e.total_volume

C27_Window(first, n) == [k \in 1..n |-> first + k - 1]

\* the window of page buttons for page p of T pages
C27_Expected(p, T) ==
  IF T <= 5 THEN C27_Window(1, T)
  ELSE IF p <= 3 THEN C27_Window(1, 5)
  ELSE IF p >= T - 2 THEN C27_Window(T - 4, 5)
  ELSE C27_Window(p - 2, 5)

\* C27 as claimed: for every total page count T >= 1 and page p in 1..T the
\* page buttons are min(5, T) consecutive page numbers within 1..T that
\* include p: 1..5 for p <= 3, T-4..T for p >= T-2, p-2..p+2 otherwise.
C27_PageWindow ==
  derived.fn = "pageButtons" =>
    /\ derived.out = C27_Expected(derived.page, derived.totalPages)
    /\ \E k \in 1..Len(derived.out) : derived.out[k] = derived.page
    /\ \A k \in 1..Len(derived.out) : derived.out[k] \in 1..derived.totalPages

\* C27: for every total page count T >= 2 and page p in 1..T the page
\* buttons are min(5, T) consecutive page numbers within 1..T that include
\* p: 1..5 for p <= 3, T-4..T for p >= T-2, p-2..p+2 otherwise; for T = 1
\* no page button is shown.
C27_PageWindowWhenShown ==
  derived.fn = "pageButtons" =>
    IF derived.totalPages = 1 THEN derived.out = <<>>
    ELSE /\ derived.out = C27_Expected(derived.page, derived.totalPages)
         /\ \E k \in 1..Len(derived.out) : derived.out[k] = derived.page
         /\ \A k \in 1..Len(derived.out) : derived.out[k] \in 1..derived.totalPages

\* a page near the end of more than five pages: the window is T-4..T
C27_Witness ==
  /\ derived.fn = "pageButtons"
  /\ derived.totalPages = 8 /\ derived.page = 6
  /\ derived.out = <<4, 5, 6, 7, 8>>

\* ================================================= cross-cutting claims

\* C28: in every reachable state of the auth session, if the user is
\* authenticated (user non-null) an access token is present in storage.
C28_UserImpliesAccessToken ==
  (mounted /\ user # NULL) => accessToken # NoToken

\* C29: once the entry is displayed for the open signal, every step that
\* leaves the detail view open leaves the journal in display with a non-null
\* entry, whatever a later existence check answers.
C29_DisplayIsStable ==
  [][ (EntryShown /\ jOpen') =>
        (journalMode' = "display" /\ journalEntry' # NoEntry) ]_vars

\* C30: while the note editor is expanded and stays expanded, the notes
\* buffer changes only by the user's typing; the answer of a refresh started
\* before the editor was opened leaves it alone.
C30_BufferIsTheUsers ==
  [][ (EditorShown /\ EditorShown' /\ journalNotes' # journalNotes) =>
        jLast'.op = "typeNotes" ]_vars

====
